---------------------------- MODULE Spec2Model ----------------------------
(***************************************************************************)
(* Edu_forge: the AI content-generation functions of server/gemini.ts,     *)
(* the routes of server/routes.ts, the storage operations behind them      *)
(* (server/storage.ts) and the chat of the learning-session page.          *)
(*                                                                         *)
(* The repository holds three implementations of the generation module:    *)
(*   "generative-ai"  src/server/gemini.ts lines 1-292                     *)
(*                    (@google/generative-ai, response.text())             *)
(*   "genai"          src/server/gemini.ts lines 294-564                   *)
(*                    (@google/genai, response.text, responseSchema)       *)
(*   "fenced"         src/unnamed/part_002                                 *)
(*                    (Gemini with fence stripping, OpenAI chat)           *)
(* A deployment runs one of them; impl says which.                         *)
(*                                                                         *)
(* A text is a sequence of one-character strings.  A JSON document inside  *)
(* a text is written as one symbol (an element of JsonAtoms) standing for  *)
(* its serialisation; JSONParse maps it to the value it denotes.           *)
(*                                                                         *)
(* A prompt is the sequence of the string segments it is concatenated      *)
(* from: the pieces of the template literal and the interpolated values.   *)
(*                                                                         *)
(* The specifications share the variables; each moves its own group and    *)
(* leaves the others as Init set them:                                     *)
(*   Spec        generate calls and the provider's answers, two in flight  *)
(*   SpecStrip   fence stripping applied to a raw text                     *)
(*   SpecRoute   the AI routes: validation, defaults, prompt, chat         *)
(*   SpecTopics  POST /api/topics and PATCH /api/topics/:id/progress       *)
(*   SpecLikes   togglePostLike, two requests in flight                    *)
(*   SpecGroups  createStudyGroup and joinStudyGroup                       *)
(*   SpecApi     every registered route: isAuthenticated, row owners       *)
(*   SpecChat    the chat history of the learning-session page             *)
(*   SpecStreak  updateUserStreak against a moving clock                   *)
(*   SpecXp      updateUserXP, two updates in flight                       *)
(*   SpecCards   POST /api/ai/flashcards saving its cards                  *)
(***************************************************************************)
EXTENDS Integers, Sequences, FiniteSets, TLC

VARIABLES
  impl,      \* which implementation of the module is deployed
  pc,        \* per call: "idle", "awaiting", "settled", "done"
  task,      \* per call: the arguments of the generate call
  prompt,    \* per call: the local prompt of the function
  sent,      \* per call: provider requests issued by this call
  response,  \* per call: the settlement of the awaited provider promise
  given,     \* per call: what the provider produced for this call's request
  result,    \* per call: what the call returned or threw, and what it logged
  sx,        \* strip harness: the raw text
  sy,        \* strip harness: the text stripped once
  sz,        \* strip harness: the text stripped twice
  sStage,    \* strip harness: "raw", "once", "twice"
  rq,        \* AI routes: the body of the request being handled
  rst,       \* AI routes: "idle", "awaiting", "responded"
  status,    \* AI routes: the HTTP status answered (0: none yet)
  gcall,     \* AI routes: the generate call made, with its arguments
  submitted, \* AI routes: what that call handed to the provider
  session,   \* AI routes: the conversation object of the latest chat call
  prevSession, \* AI routes: the one of the chat call before it
  topics,    \* topics table: the rows, in order of insertion
  tbefore,   \* topics table: the rows before the latest request
  treq,      \* topics table: the latest request
  tstatus,   \* topics table: the HTTP status it was answered with
  likeRows,   \* post likes: the users with a row in post_likes for the post
  likeCount,  \* post likes: posts.likeCount of the post
  lpc,        \* post likes: per request, the statement it is at
  luser,      \* post likes: per request, the session user
  lfound,     \* post likes: per request, whether its select found a row
  lstatus,    \* post likes: per request, the HTTP status answered
  ltoggles,   \* post likes: requests started so far
  sgroups,    \* study groups: the rows, each with its member rows
  sgstatus,   \* study groups: the HTTP status of the latest request
  areq,       \* registered routes: the request being handled
  astage,     \* registered routes: idle, middleware, handler, done
  astatus,    \* registered routes: the HTTP status answered
  arows,      \* registered routes: the rows the handler created
  awrote,     \* registered routes: whether the handler wrote to storage
  acalls,     \* registered routes: provider calls the handler made
  chatHistory, \* client chat: the chatHistory state of the page
  cpending,   \* client chat: chatMutation.isPending
  cvariables, \* client chat: the variables of the mutation
  csent,      \* client chat: the history field of the latest request
  csubmits,   \* client chat: questions submitted so far
  canswered,  \* client chat: the submits that were answered, in order
  now,        \* streak: the clock
  urow,       \* streak: the streak and lastLearningDate of the user row
  upc,        \* streak: idle, write, written
  unew,       \* streak: the local newStreak of the call
  ubefore,    \* streak: the row the call read
  utoday,     \* streak: the calendar day the call took as today
  xrow,       \* xp: the xp and level of the user row
  xpc,        \* xp: per call, idle or update
  xgain,      \* xp: per call, the xpGained argument
  xrequested, \* xp: the sum of the gains of all calls made
  xcalls,     \* xp: calls made so far
  xoverlap,   \* xp: whether two calls were ever in flight together
  ftable,     \* flashcards: the rows of the flashcards table
  fbefore,    \* flashcards: the rows when the request arrived
  fcards,     \* flashcards: flashcardsData.cards of the request
  fidx,       \* flashcards: the position of the loop
  savedCards, \* flashcards: the local savedCards
  freturned,  \* flashcards: the flashcards field of the response
  fstatus,    \* flashcards: the HTTP status answered
  fpc,        \* flashcards: idle, loop, done
  frequests   \* flashcards: requests made so far

vars ==
  <<impl, pc, task, prompt, sent, response, given, result, sx, sy, sz, sStage,
    rq, rst, status, gcall, submitted, session, prevSession,
    topics, tbefore, treq, tstatus,
    likeRows, likeCount, lpc, luser, lfound, lstatus, ltoggles,
    sgroups, sgstatus,
    areq, astage, astatus, arows, awrote, acalls,
    chatHistory, cpending, cvariables, csent, csubmits, canswered,
    now, urow, upc, unew, ubefore, utoday,
    xrow, xpc, xgain, xrequested, xcalls, xoverlap,
    ftable, fbefore, fcards, fidx, savedCards, freturned, fstatus, fpc, frequests>>

genVars == <<impl, pc, task, prompt, sent, response, given, result>>

stripVars == <<sx, sy, sz, sStage>>

routeVars == <<rq, rst, status, gcall, submitted, session, prevSession>>

topicVars == <<topics, tbefore, treq, tstatus>>

likeVars == <<likeRows, likeCount, lpc, luser, lfound, lstatus, ltoggles>>

groupVars == <<sgroups, sgstatus>>

apiVars == <<areq, astage, astatus, arows, awrote, acalls>>

chatVars == <<chatHistory, cpending, cvariables, csent, csubmits, canswered>>

streakVars == <<now, urow, upc, unew, ubefore, utoday>>

xpVars == <<xrow, xpc, xgain, xrequested, xcalls, xoverlap>>

cardVars == <<ftable, fbefore, fcards, fidx, savedCards, freturned, fstatus, fpc, frequests>>

dataVars ==
  <<likeVars, groupVars, apiVars, chatVars, streakVars, xpVars, cardVars>>

notLikeVars ==
  <<genVars, stripVars, routeVars, topicVars, groupVars, apiVars,
    chatVars, streakVars, xpVars, cardVars>>

notGroupVars ==
  <<genVars, stripVars, routeVars, topicVars, likeVars, apiVars, chatVars,
    streakVars, xpVars, cardVars>>

notApiVars ==
  <<genVars, stripVars, routeVars, topicVars, likeVars, groupVars,
    chatVars, streakVars, xpVars, cardVars>>

notChatVars ==
  <<genVars, stripVars, routeVars, topicVars, likeVars, groupVars,
    apiVars, streakVars, xpVars, cardVars>>

notStreakVars ==
  <<genVars, stripVars, routeVars, topicVars, likeVars, groupVars,
    apiVars, chatVars, xpVars, cardVars>>

notXpVars ==
  <<genVars, stripVars, routeVars, topicVars, likeVars, groupVars,
    apiVars, chatVars, streakVars, cardVars>>

notCardVars ==
  <<genVars, stripVars, routeVars, topicVars, likeVars, groupVars,
    apiVars, chatVars, streakVars, xpVars>>

----------------------------------------------------------------------------
(* Texts *)

\* The backtick character (U+0060), which a TLA+ string cannot hold.
BT == "bt"

FenceJson == <<BT, BT, BT, "j", "s", "o", "n">>

Fence == <<BT, BT, BT>>

\* The strip harness builds its raw texts from at most MaxChunks chunks.
MaxChunks == 5

Chunks == { <<BT>>, Fence, <<"j", "s", "o", "n">>, <<"j">>, <<"x">> }

RECURSIVE TextsOf(_)
TextsOf(n) ==
  IF n = 0 THEN { <<>> }
  ELSE LET P == TextsOf(n - 1)
       IN  P \cup { p \o ch : p \in P, ch \in Chunks }

\* String.prototype.replace(/pat/, ""): the first occurrence only.
RECURSIVE RemoveFirst(_, _)
RemoveFirst(s, pat) ==
  IF Len(s) < Len(pat) THEN s
  ELSE IF SubSeq(s, 1, Len(pat)) = pat
       THEN SubSeq(s, Len(pat) + 1, Len(s))
       ELSE <<Head(s)>> \o RemoveFirst(Tail(s), pat)

\* String.prototype.replace(/pat/g, ""): every occurrence, leftmost first,
\* the scan resuming after each match.
RECURSIVE RemoveAll(_, _)
RemoveAll(s, pat) ==
  IF Len(s) < Len(pat) THEN s
  ELSE IF SubSeq(s, 1, Len(pat)) = pat
       THEN RemoveAll(SubSeq(s, Len(pat) + 1, Len(s)), pat)
       ELSE <<Head(s)>> \o RemoveAll(Tail(s), pat)

\* A variant that deletes the word json wherever it stands.
StripAnyJson(s) == RemoveAll(RemoveAll(s, <<"j", "s", "o", "n">>), Fence)

\* text.replace(/FenceJson/g, "").replace(/Fence/g, "")
Strip(s) == RemoveAll(RemoveAll(s, FenceJson), Fence)

\* s contains pat as a substring
Contains(s, pat) ==
  \E i \in 1..(Len(s) - Len(pat) + 1) : SubSeq(s, i, i + Len(pat) - 1) = pat

----------------------------------------------------------------------------
(* JSON *)

\* JSON whitespace
WS == { " ", "\n" }

RECURSIVE DropLeadingWS(_)
DropLeadingWS(s) ==
  IF s # <<>> /\ Head(s) \in WS THEN DropLeadingWS(Tail(s)) ELSE s

RECURSIVE DropTrailingWS(_)
DropTrailingWS(s) ==
  IF s # <<>> /\ s[Len(s)] \in WS
  THEN DropTrailingWS(SubSeq(s, 1, Len(s) - 1))
  ELSE s

\* The documents the provider may emit, each one symbol of a text.
QuizAtoms == { "QUIZ_OK", "QUIZ_3OPT", "QUIZ_CA5", "QUIZ_EMPTYQ", "QUIZ_NOQ" }

CardAtoms == { "CARDS_OK", "CARDS_EMPTYFRONT", "CARDS_NONE" }

InterviewAtoms == { "IV_OK", "IV_EMPTYQ", "IV_NOTIPS" }

JsonAtoms == QuizAtoms \cup CardAtoms \cup InterviewAtoms

\* A quiz document with one question.
QuizDoc(q, opts, ca) ==
  [questions |->
     << [question |-> q, options |-> opts, correctAnswer |-> ca,
         explanation |-> "E"] >>]

\* The value a document symbol denotes.
Decode(a) ==
  CASE a = "QUIZ_OK"          -> QuizDoc("Q", <<"A", "B", "C", "D">>, 2)
    [] a = "QUIZ_3OPT"        -> QuizDoc("Q", <<"A", "B", "C">>, 2)
    [] a = "QUIZ_CA5"         -> QuizDoc("Q", <<"A", "B", "C", "D">>, 5)
    [] a = "QUIZ_EMPTYQ"      -> QuizDoc("", <<"A", "B", "C", "D">>, 2)
    [] a = "QUIZ_NOQ"         -> [title |-> "Q"]
    [] a = "CARDS_OK"         -> [cards |-> << [front |-> "F", back |-> "B"] >>]
    [] a = "CARDS_EMPTYFRONT" -> [cards |-> << [front |-> "", back |-> "B"] >>]
    [] a = "CARDS_NONE"       -> [items |-> <<>>]
    [] a = "IV_OK"            -> [questions |-> <<"Q1", "Q2">>, tips |-> "T"]
    [] a = "IV_EMPTYQ"        -> [questions |-> <<"Q1", "">>, tips |-> "T"]
    [] a = "IV_NOTIPS"        -> [questions |-> <<"Q1", "Q2">>]

\* What a throwing call leaves in place of a value.
Undefined == [undefined |-> TRUE]

\* JSON.parse(text): the value of the one document of the text, with JSON
\* whitespace allowed around it; anything else is a SyntaxError.
JSONParse(text) ==
  LET body == DropTrailingWS(DropLeadingWS(text))
  IN  IF Len(body) = 1 /\ body[1] \in JsonAtoms
      THEN [ok |-> TRUE, value |-> Decode(body[1])]
      ELSE [ok |-> FALSE, value |-> Undefined]

----------------------------------------------------------------------------
(* Provider responses *)

CannedExplanation ==
  <<"U", "n", "a", "b", "l", "e", " ", "t", "o", " ", "g", "e", "n", "e",
    "r", "a", "t", "e", " ", "e", "x", "p", "l", "a", "n", "a", "t", "i",
    "o", "n", ".">>

CannedChatReply ==
  <<"I", "'", "m", " ", "n", "o", "t", " ", "s", "u", "r", "e", " ", "h",
    "o", "w", " ", "t", "o", " ", "r", "e", "s", "p", "o", "n", "d", " ",
    "t", "o", " ", "t", "h", "a", "t", ".", " ", "C", "a", "n", " ", "y",
    "o", "u", " ", "a", "s", "k", " ", "a", "n", "o", "t", "h", "e", "r",
    " ", "w", "a", "y", "?">>

NotJson == <<"{", "n", "o", "t", " ", "j", "s", "o", "n">>

LeftBrace == <<"L", "e", "f", "t", " ", "b", "r", "a", "c", "e", " ", "{">>

Answer == <<"S", "u", "r", "e", ".">>

\* A free-form answer with white space around it.
Padded == <<" ", "O", "k", ".", "\n">>

\* A document wrapped in a json code fence, each part on its own line.
Fenced(a) == FenceJson \o <<"\n", a, "\n">> \o Fence

Impls == { "generative-ai", "genai", "fenced" }

Kinds == { "Explanation", "Quiz", "FlashcardSet", "InterviewQuestions", "ChatTurn" }

StructuredKinds == { "Quiz", "FlashcardSet", "InterviewQuestions" }

\* The second module of gemini.ts exports no generateChatResponse.
KindsOf(i) == IF i = "genai" THEN Kinds \ { "ChatTurn" } ELSE Kinds

Topics == { "T1", "T2" }

Tasks(i) == [kind : KindsOf(i), topic : Topics]

NoTask == [kind |-> "none", topic |-> "none"]

\* The settlement of the provider promise: fulfilled with a text (or with
\* no text at all), or rejected.
Fulfilled(t) == [status |-> "ok", isNull |-> FALSE, text |-> t]

FulfilledNull == [status |-> "ok", isNull |-> TRUE, text |-> <<>>]

Rejected == [status |-> "error", isNull |-> FALSE, text |-> <<>>]

Pending == [status |-> "none", isNull |-> FALSE, text |-> <<>>]

\* The texts the model lets the provider answer a task of kind k with.
ProviderTexts(k) ==
  CASE k = "Explanation"        -> { <<>>, LeftBrace, Padded }
    [] k = "Quiz"               -> { <<>>, NotJson, Fenced("QUIZ_OK") }
                                     \cup { <<a>> : a \in QuizAtoms }
    [] k = "FlashcardSet"       -> { <<>>, Fenced("CARDS_OK") }
                                     \cup { <<a>> : a \in CardAtoms }
    [] k = "InterviewQuestions" -> { <<>>, NotJson }
                                     \cup { <<a>> : a \in InterviewAtoms }
    [] k = "ChatTurn"           -> { <<>>, Answer, Padded }
    [] OTHER                    -> {}

\* response.text is string | undefined in @google/genai and
\* message.content is string | null in openai; response.text() of
\* @google/generative-ai is always a string.
MayBeNull(i, k) ==
  \/ i = "genai"
  \/ i = "fenced" /\ k = "ChatTurn"

Fulfilments(i, k) ==
  { Fulfilled(t) : t \in ProviderTexts(k) }
    \cup (IF MayBeNull(i, k) THEN { FulfilledNull } ELSE {})

\* JavaScript falsiness of the text of a fulfilled response.
Falsy(r) == r.isNull \/ r.text = <<>>

----------------------------------------------------------------------------
(* Outcomes of a generate call *)

\* A variant that trims the text before returning it.
TextValueTrimmed(t) == [text |-> DropTrailingWS(DropLeadingWS(t))]

\* return text   (the string is handed back as it came)
TextValue(t) == [text |-> t]

\* new Error(msg) has a message and no property holding a provider text.
NoRaw == [present |-> FALSE, text |-> <<>>]

Return(v) ==
  [tag |-> "return", value |-> v, message |-> "", carried |-> NoRaw,
   logged |-> "none"]

\* throw new Error(msg) from the catch block, after console.error(_, cause)
Throw(msg, cause) ==
  [tag |-> "throw", value |-> Undefined, message |-> msg, carried |-> NoRaw,
   logged |-> cause]

NoResult ==
  [tag |-> "none", value |-> Undefined, message |-> "", carried |-> NoRaw,
   logged |-> "none"]

\* const data = JSON.parse(text); return data   (inside the try block)
TryParse(text, msg) ==
  LET p == JSONParse(text)
  IN  IF p.ok THEN Return(p.value) ELSE Throw(msg, "SyntaxError")

\* if (rawJson) { JSON.parse } else { throw new Error("Empty response ...") }
ParseIfTruthy(r, msg) ==
  IF Falsy(r) THEN Throw(msg, "Empty response from model")
  ELSE TryParse(r.text, msg)

----------------------------------------------------------------------------
(* gemini.ts, first module (@google/generative-ai) *)

generateExplanation_GA(r) ==
  IF r.status = "error"
  THEN Throw("Failed to generate explanation", "ProviderError")
  ELSE Return(TextValue(r.text))

generateQuiz_GA(r) ==
  IF r.status = "error"
  THEN Throw("Failed to generate quiz", "ProviderError")
  ELSE ParseIfTruthy(r, "Failed to generate quiz")

generateFlashcards_GA(r) ==
  IF r.status = "error"
  THEN Throw("Failed to generate flashcards", "ProviderError")
  ELSE ParseIfTruthy(r, "Failed to generate flashcards")

generateInterviewQuestions_GA(r) ==
  IF r.status = "error"
  THEN Throw("Failed to generate interview questions", "ProviderError")
  ELSE ParseIfTruthy(r, "Failed to generate interview questions")

generateChatResponse_GA(r) ==
  IF r.status = "error"
  THEN Throw("Failed to generate chat response", "ProviderError")
  ELSE Return(TextValue(r.text))

(* gemini.ts, second module (@google/genai) *)

\* return response.text || "Unable to generate explanation."
generateExplanation_GN(r) ==
  IF r.status = "error"
  THEN Throw("Failed to generate explanation", "ProviderError")
  ELSE Return(TextValue(IF Falsy(r) THEN CannedExplanation ELSE r.text))

generateQuiz_GN(r) ==
  IF r.status = "error"
  THEN Throw("Failed to generate quiz", "ProviderError")
  ELSE ParseIfTruthy(r, "Failed to generate quiz")

generateFlashcards_GN(r) ==
  IF r.status = "error"
  THEN Throw("Failed to generate flashcards", "ProviderError")
  ELSE ParseIfTruthy(r, "Failed to generate flashcards")

generateInterviewQuestions_GN(r) ==
  IF r.status = "error"
  THEN Throw("Failed to generate interview questions", "ProviderError")
  ELSE ParseIfTruthy(r, "Failed to generate interview questions")

(* part_002 (fence stripping, OpenAI chat) *)

generateExplanation_P2(r) ==
  IF r.status = "error"
  THEN Throw("Failed to generate explanation", "ProviderError")
  ELSE Return(TextValue(r.text))

generateQuiz_P2(r) ==
  IF r.status = "error"
  THEN Throw("Failed to generate quiz", "ProviderError")
  ELSE TryParse(Strip(r.text), "Failed to generate quiz")

generateFlashcards_P2(r) ==
  IF r.status = "error"
  THEN Throw("Failed to generate flashcards", "ProviderError")
  ELSE TryParse(Strip(r.text), "Failed to generate flashcards")

generateInterviewQuestions_P2(r) ==
  IF r.status = "error"
  THEN Throw("Failed to generate interview questions", "ProviderError")
  ELSE TryParse(Strip(r.text), "Failed to generate interview questions")

\* return response.choices[0].message.content || "I'm not sure ..."
generateChatResponse_P2(r) ==
  IF r.status = "error"
  THEN Throw("Failed to generate chat response", "ProviderError")
  ELSE Return(TextValue(IF Falsy(r) THEN CannedChatReply ELSE r.text))

\* The function routes.ts reaches for a task of kind k under implementation
\* i, applied to the settlement r of its provider request.
Generate(i, k, r) ==
  CASE i = "generative-ai" /\ k = "Explanation"        -> generateExplanation_GA(r)
    [] i = "generative-ai" /\ k = "Quiz"               -> generateQuiz_GA(r)
    [] i = "generative-ai" /\ k = "FlashcardSet"       -> generateFlashcards_GA(r)
    [] i = "generative-ai" /\ k = "InterviewQuestions" -> generateInterviewQuestions_GA(r)
    [] i = "generative-ai" /\ k = "ChatTurn"           -> generateChatResponse_GA(r)
    [] i = "genai" /\ k = "Explanation"                -> generateExplanation_GN(r)
    [] i = "genai" /\ k = "Quiz"                       -> generateQuiz_GN(r)
    [] i = "genai" /\ k = "FlashcardSet"               -> generateFlashcards_GN(r)
    [] i = "genai" /\ k = "InterviewQuestions"         -> generateInterviewQuestions_GN(r)
    [] i = "fenced" /\ k = "Explanation"               -> generateExplanation_P2(r)
    [] i = "fenced" /\ k = "Quiz"                      -> generateQuiz_P2(r)
    [] i = "fenced" /\ k = "FlashcardSet"              -> generateFlashcards_P2(r)
    [] i = "fenced" /\ k = "InterviewQuestions"        -> generateInterviewQuestions_P2(r)
    [] i = "fenced" /\ k = "ChatTurn"                  -> generateChatResponse_P2(r)

\* The prompt a task is turned into before the provider is called: which
\* function built it, and the topic (role, topicTitle) interpolated into it.
BuildPrompt(i, t) == [for |-> t.kind, topic |-> t.topic]

NoPrompt == [for |-> "none", topic |-> "none"]

----------------------------------------------------------------------------
(* The strip harness: Strip applied to a raw text, then to its own output. *)

StripInit ==
  /\ sx \in TextsOf(MaxChunks)
  /\ sy = <<>>
  /\ sz = <<>>
  /\ sStage = "raw"

StripIdle ==
  /\ sx = <<>>
  /\ sy = <<>>
  /\ sz = <<>>
  /\ sStage = "raw"

StripOnce ==
  /\ sStage = "raw"
  /\ sy' = Strip(sx)
  /\ sStage' = "once"
  /\ UNCHANGED <<sx, sz, genVars, routeVars, topicVars, dataVars>>

StripTwice ==
  /\ sStage = "once"
  /\ sz' = Strip(sy)
  /\ sStage' = "twice"
  /\ UNCHANGED <<sx, sy, genVars, routeVars, topicVars, dataVars>>

----------------------------------------------------------------------------
(* Values of a JSON request body and of an argument list *)

\* A field: its typeof, its conversion to a string (as a template literal
\* renders it), its value when it is a number, and whether that number is
\* an integer.
Absent == [t |-> "undefined", s |-> "undefined", n |-> 0, whole |-> FALSE]

Null == [t |-> "object", s |-> "null", n |-> 0, whole |-> FALSE]

Str(x) == [t |-> "string", s |-> x, n |-> 0, whole |-> FALSE]

Num(k) == [t |-> "number", s |-> ToString(k), n |-> k, whole |-> TRUE]

\* The number 2.5.
Fraction == [t |-> "number", s |-> "2.5", n |-> 2, whole |-> FALSE]

\* A variant that only asks whether the field is there.
Defined(v) == v.t # "undefined"

\* !v is false
Truthy(v) ==
  CASE v.t = "string" -> v.s # ""
    [] v.t = "number" -> ~v.whole \/ v.n # 0
    [] OTHER          -> FALSE

\* ${v} inside a template literal
Interp(v) == v.s

\* A variant that takes the default for every falsy value (v || d).
DefaultToIfFalsy(v, d) == IF Truthy(v) THEN v ELSE d

\* A default of a parameter or of a destructuring pattern (x = d): it
\* applies to undefined only.
DefaultTo(v, d) == IF v.t = "undefined" THEN d ELSE v

\* A turn of a conversation; its text is a sequence of string segments.
Turn(role, text) == [role |-> role, text |-> text]

TurnU == Turn("user", << "What is it?" >>)

TurnM == Turn("model", << "It is this." >>)

\* The history field of a chat body: missing, or an array of turns.
NoHistory == [given |-> FALSE, turns |-> << >>]

Hist(ts) == [given |-> TRUE, turns |-> ts]

\* history || []
HistoryOrEmpty(h) == IF h.given THEN h.turns ELSE << >>

\* A request body, and the arguments of a generate call: op names the
\* route or the function, the other fields are those the routes read.
EmptyBody ==
  [op |-> "none", topic |-> Absent, difficulty |-> Absent, context |-> Absent,
   topicTitle |-> Absent, topicContent |-> Absent, history |-> NoHistory,
   question |-> Absent, questionCount |-> Absent, cardCount |-> Absent,
   topicId |-> Absent, role |-> Absent, level |-> Absent]

Names == { Absent, Str(""), Str("T1") }

Difficulties ==
  { Absent, Str("beginner"), Str("intermediate"), Str("advanced"), Str("expert") }

Contexts == { Absent, Str(""), Str("for an exam") }

Counts ==
  { Absent, Null, Num(0), Num(-1), Num(3), Fraction, Num(1000000), Str("many") }

Histories ==
  { NoHistory, Hist(<< >>), Hist(<< TurnU, TurnM >>), Hist(<< TurnM, TurnU >>) }

ExplainBodies ==
  { [EmptyBody EXCEPT !.op = "POST /api/ai/explain", !.topic = t,
                      !.difficulty = d, !.context = c] :
      t \in Names, d \in Difficulties, c \in Contexts }

ChatBodies ==
  { [EmptyBody EXCEPT !.op = "POST /api/ai/chat", !.topicTitle = t,
                      !.topicContent = tc, !.history = h, !.question = q] :
      t \in Names, tc \in { Absent, Str("About T1.") }, h \in Histories,
      q \in { Absent, Str("Q1"), Str("Q2") } }

QuizBodies ==
  { [EmptyBody EXCEPT !.op = "POST /api/ai/quiz", !.topic = t,
                      !.questionCount = n] :
      t \in Names, n \in Counts }

FlashcardBodies ==
  { [EmptyBody EXCEPT !.op = "POST /api/ai/flashcards", !.topic = t,
                      !.topicId = id, !.cardCount = n] :
      t \in Names, id \in { Absent, Str("topic-1") }, n \in Counts }

InterviewBodies ==
  { [EmptyBody EXCEPT !.op = "POST /api/ai/interview", !.role = r,
                      !.level = l] :
      r \in Names, l \in { Absent, Str("senior") } }

----------------------------------------------------------------------------
(* The prompts *)

\* case "beginner": prompt = ...
TemplateBeginner(topic) ==
  << "Explain \"",
     Interp(topic),
     "\" like I'm 10 years old. Use simple words, analogies, and make it fun and easy to understand. Include examples that a child would relate to." >>

\* case "intermediate": prompt = ...
TemplateIntermediate(topic) ==
  << "Provide a quick revision summary of \"",
     Interp(topic),
     "\". Focus on key points, important concepts, and essential information. Make it concise but comprehensive for someone who needs a refresher." >>

\* case "advanced": prompt = ...
TemplateAdvanced(topic) ==
  << "Provide a college-level, in-depth explanation of \"",
     Interp(topic),
     "\". Include technical details, theoretical foundations, practical applications, and advanced concepts. Assume the reader has some background knowledge." >>

\* prompt += ` Context: ...`
ContextSuffix(context) ==
  << " Context: ",
     Interp(context) >>

\* generateQuiz of gemini.ts
QuizPrompt_G(topic, questionCount) ==
  << "Create ",
     Interp(questionCount),
     " multiple-choice questions about \"",
     Interp(topic),
     "\".\n  \n  Respond with JSON in this exact format:\n  {\n    \"questions\": [\n      {\n        \"question\": \"Question text here\",\n        \"options\": [\"Option A\", \"Option B\", \"Option C\", \"Option D\"],\n        \"correctAnswer\": 0,\n        \"explanation\": \"Why this answer is correct\"\n      }\n    ]\n  }\n  \n  Make sure:\n  - Questions are educational and test understanding\n  - Each question has exactly 4 options\n  - correctAnswer is the index (0-3) of the correct option\n  - Include clear explanations for each answer" >>

\* generateQuiz of part_002
QuizPrompt_P2(topic, questionCount) ==
  << "Create ",
     Interp(questionCount),
     " multiple-choice questions about \"",
     Interp(topic),
     "\". Respond with valid JSON in this exact format: {\"questions\": [{\"question\": \"...\", \"options\": [\"A\", \"B\", \"C\", \"D\"], \"correctAnswer\": 0, \"explanation\": \"...\"}]}" >>

\* generateFlashcards of gemini.ts
FlashcardsPrompt_G(topic, cardCount) ==
  << "Create ",
     Interp(cardCount),
     " flashcards about \"",
     Interp(topic),
     "\".\n  \n  Respond with JSON in this exact format:\n  {\n    \"cards\": [\n      {\n        \"front\": \"Question or term\",\n        \"back\": \"Answer or definition\"\n      }\n    ]\n  }\n  \n  Make the flashcards educational and focused on key concepts, terms, and facts about the topic." >>

\* generateFlashcards of part_002
FlashcardsPrompt_P2(topic, cardCount) ==
  << "Create ",
     Interp(cardCount),
     " flashcards about \"",
     Interp(topic),
     "\". Respond with valid JSON in this exact format: {\"cards\": [{\"front\": \"...\", \"back\": \"...\"}]}" >>

\* generateInterviewQuestions of gemini.ts
InterviewPrompt_G(role, level) ==
  << "Generate 5 interview questions for a ",
     Interp(level),
     " level ",
     Interp(role),
     " position.\n  \n  Respond with JSON in this exact format:\n  {\n    \"questions\": [\"Question 1\", \"Question 2\", etc.],\n    \"tips\": \"General tips for answering these types of questions\"\n  }\n  \n  Include a mix of technical and behavioral questions appropriate for the role and level." >>

\* generateInterviewQuestions of part_002
InterviewPrompt_P2(role, level) ==
  << "Generate 5 interview questions for a ",
     Interp(level),
     " level ",
     Interp(role),
     " position. Respond with valid JSON in this exact format: {\"questions\": [\"...\", \"...\"], \"tips\": \"...\"}" >>

\* systemPrompt of gemini.ts
SystemPrompt_GA(topicTitle, topicContent) ==
  << "You are \"Chaitanya AI\", a friendly and encouraging learning assistant. Your ONLY purpose is to discuss the topic of \"",
     Interp(topicTitle),
     "\".\n\nStrict rules:\n- NEVER answer questions or discuss topics unrelated to \"",
     Interp(topicTitle),
     "\".\n- If asked about anything else, politely decline and steer the conversation back to \"",
     Interp(topicTitle),
     "\". For example: \"That's an interesting question, but my focus is to help you master ",
     Interp(topicTitle),
     ". Shall we get back to it?\"\n- Keep your answers concise and easy to understand.\n- Use the provided context to answer questions accurately.\n\nHere is the context for \"",
     Interp(topicTitle),
     "\":\n---\n",
     Interp(topicContent),
     "\n---\n" >>

\* systemPrompt of part_002
SystemPrompt_P2(topicTitle, topicContent) ==
  << "You are \"Chaitanya AI\", a friendly and encouraging learning assistant. Your ONLY purpose is to discuss the topic of \"",
     Interp(topicTitle),
     "\". Strict rules: - NEVER answer questions or discuss topics unrelated to \"",
     Interp(topicTitle),
     "\". - If asked about anything else, politely decline and steer the conversation back to \"",
     Interp(topicTitle),
     "\". For example: \"That's an interesting question, but my focus is to help you master ",
     Interp(topicTitle),
     ". Shall we get back to it?\" - Keep your answers concise and easy to understand. - Use the provided context to answer questions accurately. Here is the context for \"",
     Interp(topicTitle),
     "\": --- ",
     Interp(topicContent),
     " ---" >>

\* the model turn that follows the system prompt in gemini.ts
Greeting(topicTitle) ==
  << "Great! I'm ready to help you learn about ",
     Interp(topicTitle),
     ". Ask me anything!" >>

\* The cases of the switch on request.difficulty.
Levels == { "beginner", "intermediate", "advanced" }

\* let prompt = ""; switch (request.difficulty) { three cases, no default }
ExplanationTemplate(difficulty, topic) ==
  CASE difficulty = Str("beginner")     -> TemplateBeginner(topic)
    [] difficulty = Str("intermediate") -> TemplateIntermediate(topic)
    [] difficulty = Str("advanced")     -> TemplateAdvanced(topic)
    [] OTHER                            -> << >>

\* A variant that appends the context block whatever the context is.
ContextBlockAlways(context) == ContextSuffix(context)

\* if (request.context) { prompt += ... }
ContextBlock(context) ==
  IF Truthy(context) THEN ContextSuffix(context) ELSE << >>

ExplanationPrompt(request) ==
  ExplanationTemplate(request.difficulty, request.topic)
    \o ContextBlock(request.context)

\* generateQuiz(topic, questionCount: number = 5)
DefaultQuestionCount == 5

\* generateFlashcards(topic, cardCount: number = 10)
DefaultCardCount == 10

\* const { topic, questionCount = 5, topicId } = req.body
RouteQuestionCount == 5

\* const { topic, topicId, cardCount = 10 } = req.body
RouteCardCount == 10

\* level = "intermediate", in the function and in the route
DefaultLevel == Str("intermediate")

QuizPrompt(i, topic, questionCount) ==
  IF i = "fenced" THEN QuizPrompt_P2(topic, questionCount)
  ELSE QuizPrompt_G(topic, questionCount)

FlashcardsPrompt(i, topic, cardCount) ==
  IF i = "fenced" THEN FlashcardsPrompt_P2(topic, cardCount)
  ELSE FlashcardsPrompt_G(topic, cardCount)

InterviewPrompt(i, role, level) ==
  IF i = "fenced" THEN InterviewPrompt_P2(role, level)
  ELSE InterviewPrompt_G(role, level)

\* The parameters of a generate function as its body sees them, after
\* the defaults of the parameter list.
generateExplanationArgs(topic, difficulty, context) ==
  [EmptyBody EXCEPT !.op = "generateExplanation", !.topic = topic,
                    !.difficulty = difficulty, !.context = context]

generateQuizArgs(topic, questionCount) ==
  [EmptyBody EXCEPT !.op = "generateQuiz", !.topic = topic,
     !.questionCount = DefaultTo(questionCount, Num(DefaultQuestionCount))]

generateFlashcardsArgs(topic, cardCount) ==
  [EmptyBody EXCEPT !.op = "generateFlashcards", !.topic = topic,
     !.cardCount = DefaultTo(cardCount, Num(DefaultCardCount))]

generateInterviewQuestionsArgs(role, level) ==
  [EmptyBody EXCEPT !.op = "generateInterviewQuestions", !.role = role,
     !.level = DefaultTo(level, DefaultLevel)]

generateChatResponseArgs(topicTitle, topicContent, history, question) ==
  [EmptyBody EXCEPT !.op = "generateChatResponse", !.topicTitle = topicTitle,
     !.topicContent = topicContent, !.history = Hist(history),
     !.question = question]

\* What one provider request carries: a prompt (generateContent) or a
\* message sequence (a chat), and the number of requests issued.
NoSubmission == [prompt |-> << >>, messages |-> << >>, n |-> 0]

OnePrompt(p) == [prompt |-> p, messages |-> << >>, n |-> 1]

OneChat(m) == [prompt |-> << >>, messages |-> m, n |-> 1]

\* A variant in which one conversation object outlives the call and the
\* next call adds to it.
ContinueConversation(old, fresh) == old \o fresh

\* model.startChat({ history: [...] }) and const messages = [...]: each
\* call builds its conversation anew; nothing of an earlier one is read.
NewConversation(old, fresh) == fresh

\* A variant of the first module's history without the caller's turns.
InitialHistoryWithoutTurns_GA(call) ==
  << Turn("user", SystemPrompt_GA(call.topicTitle, call.topicContent)),
     Turn("model", Greeting(call.topicTitle)) >>

\* history: [ {user: systemPrompt}, {model: greeting}, ...history ]
InitialHistory_GA(call) ==
  << Turn("user", SystemPrompt_GA(call.topicTitle, call.topicContent)),
     Turn("model", Greeting(call.topicTitle)) >>
    \o call.history.turns

\* startChat(history) then chat.sendMessage(question): the request carries
\* the history followed by the question as a user turn.
ChatMessages_GA(call, old) ==
  NewConversation(old, InitialHistory_GA(call))
    \o << Turn("user", << Interp(call.question) >>) >>

\* messages = [ {system: systemPrompt}, ...history, {user: question} ]
ChatMessages_P2(call, old) ==
  NewConversation(old,
    << Turn("system", SystemPrompt_P2(call.topicTitle, call.topicContent)) >>
      \o call.history.turns
      \o << Turn("user", << Interp(call.question) >>) >>)

ChatMessages(i, call, old) ==
  IF i = "fenced" THEN ChatMessages_P2(call, old)
  ELSE ChatMessages_GA(call, old)

----------------------------------------------------------------------------
(* The AI routes of routes.ts *)

NoCall == EmptyBody

\* return res.status(code).json(...) before any generate call
Responded(code) ==
  [rst |-> "responded", status |-> code, gcall |-> NoCall,
   submitted |-> NoSubmission]

\* The handler has entered the generate function, which has built its
\* request and awaits the provider.
Awaiting(call, sub) ==
  [rst |-> "awaiting", status |-> 0, gcall |-> call, submitted |-> sub]

\* POST /api/ai/explain
explainRoute(i, b) ==
  IF ~Truthy(b.topic) \/ ~Truthy(b.difficulty) THEN Responded(400)
  ELSE LET request == generateExplanationArgs(b.topic, b.difficulty, b.context)
       IN  Awaiting(request, OnePrompt(ExplanationPrompt(request)))

\* POST /api/ai/chat
chatRoute(i, b, old) ==
  IF ~Truthy(b.topicTitle) \/ ~Truthy(b.topicContent) \/ ~Truthy(b.question)
  THEN Responded(400)
  ELSE LET call == generateChatResponseArgs(b.topicTitle, b.topicContent,
                     HistoryOrEmpty(b.history), b.question)
       IN  Awaiting(call, OneChat(ChatMessages(i, call, old)))

\* POST /api/ai/quiz
quizRoute(i, b) ==
  LET questionCount == DefaultTo(b.questionCount, Num(RouteQuestionCount))
  IN  IF ~Truthy(b.topic) THEN Responded(400)
      ELSE LET call == generateQuizArgs(b.topic, questionCount)
           IN  Awaiting(call,
                 OnePrompt(QuizPrompt(i, call.topic, call.questionCount)))

\* POST /api/ai/flashcards
flashcardsRoute(i, b) ==
  LET cardCount == DefaultTo(b.cardCount, Num(RouteCardCount))
  IN  IF ~Truthy(b.topic) \/ ~Truthy(b.topicId) THEN Responded(400)
      ELSE LET call == generateFlashcardsArgs(b.topic, cardCount)
           IN  Awaiting(call,
                 OnePrompt(FlashcardsPrompt(i, call.topic, call.cardCount)))

\* POST /api/ai/interview
interviewRoute(i, b) ==
  LET level == DefaultTo(b.level, DefaultLevel)
  IN  IF ~Truthy(b.role) THEN Responded(400)
      ELSE LET call == generateInterviewQuestionsArgs(b.role, level)
           IN  Awaiting(call,
                 OnePrompt(InterviewPrompt(i, call.role, call.level)))

\* The conversation object of the latest chat call (the ChatSession of
\* startChat, the messages array of part_002) with the arguments of that
\* call.  The code keeps no reference to it after the call; the model
\* keeps the latest two so that calls can be compared.
NoSession == [open |-> FALSE, args |-> NoCall, messages |-> << >>]

RouteIdle ==
  /\ rq = EmptyBody
  /\ rst = "idle"
  /\ status = 0
  /\ gcall = NoCall
  /\ submitted = NoSubmission
  /\ session = NoSession
  /\ prevSession = NoSession

PostExplain(b) ==
  /\ rst = "idle"
  /\ LET h == explainRoute(impl, b)
     IN  /\ rq' = b
         /\ rst' = h.rst
         /\ status' = h.status
         /\ gcall' = h.gcall
         /\ submitted' = h.submitted
  /\ UNCHANGED <<session, prevSession, genVars, stripVars, topicVars, dataVars>>

\* The second module of gemini.ts has no chat function to route to.
PostChat(b) ==
  /\ rst = "idle"
  /\ impl # "genai"
  /\ LET h == chatRoute(impl, b, session.messages)
     IN  /\ rq' = b
         /\ rst' = h.rst
         /\ status' = h.status
         /\ gcall' = h.gcall
         /\ submitted' = h.submitted
         /\ IF h.rst = "awaiting"
            THEN /\ session' = [open |-> TRUE, args |-> h.gcall,
                                messages |-> h.submitted.messages]
                 /\ prevSession' = session
            ELSE UNCHANGED <<session, prevSession>>
  /\ UNCHANGED <<genVars, stripVars, topicVars, dataVars>>

PostQuiz(b) ==
  /\ rst = "idle"
  /\ LET h == quizRoute(impl, b)
     IN  /\ rq' = b
         /\ rst' = h.rst
         /\ status' = h.status
         /\ gcall' = h.gcall
         /\ submitted' = h.submitted
  /\ UNCHANGED <<session, prevSession, genVars, stripVars, topicVars, dataVars>>

PostFlashcards(b) ==
  /\ rst = "idle"
  /\ LET h == flashcardsRoute(impl, b)
     IN  /\ rq' = b
         /\ rst' = h.rst
         /\ status' = h.status
         /\ gcall' = h.gcall
         /\ submitted' = h.submitted
  /\ UNCHANGED <<session, prevSession, genVars, stripVars, topicVars, dataVars>>

PostInterview(b) ==
  /\ rst = "idle"
  /\ LET h == interviewRoute(impl, b)
     IN  /\ rq' = b
         /\ rst' = h.rst
         /\ status' = h.status
         /\ gcall' = h.gcall
         /\ submitted' = h.submitted
  /\ UNCHANGED <<session, prevSession, genVars, stripVars, topicVars, dataVars>>

\* generateQuiz(topic) or generateFlashcards(topic) called with the count
\* argument left out, not through a route.
CallWithoutCount(fn) ==
  /\ rst = "idle"
  /\ LET call == IF fn = "generateQuiz"
                 THEN generateQuizArgs(Str("T1"), Absent)
                 ELSE generateFlashcardsArgs(Str("T1"), Absent)
         p == IF fn = "generateQuiz"
              THEN QuizPrompt(impl, call.topic, call.questionCount)
              ELSE FlashcardsPrompt(impl, call.topic, call.cardCount)
     IN  /\ rq' = EmptyBody
         /\ rst' = "awaiting"
         /\ status' = 0
         /\ gcall' = call
         /\ submitted' = OnePrompt(p)
  /\ UNCHANGED <<session, prevSession, genVars, stripVars, topicVars, dataVars>>

\* The generate call returns (ok) or throws: res.json(...) or the catch
\* block's res.status(500).  A call made outside a route has no response.
RouteResume(ok) ==
  /\ rst = "awaiting"
  /\ rst' = "responded"
  /\ status' = IF rq.op = "none" THEN 0 ELSE IF ok THEN 200 ELSE 500
  /\ UNCHANGED <<rq, gcall, submitted, session, prevSession, genVars,
                 stripVars, topicVars, dataVars>>

\* The response is out; the handler's frame is gone.
RouteClose ==
  /\ rst = "responded"
  /\ rq' = EmptyBody
  /\ rst' = "idle"
  /\ status' = 0
  /\ gcall' = NoCall
  /\ submitted' = NoSubmission
  /\ UNCHANGED <<session, prevSession, genVars, stripVars, topicVars, dataVars>>

RouteNext ==
  \/ \E b \in ExplainBodies : PostExplain(b)
  \/ \E b \in ChatBodies : PostChat(b)
  \/ \E b \in QuizBodies : PostQuiz(b)
  \/ \E b \in FlashcardBodies : PostFlashcards(b)
  \/ \E b \in InterviewBodies : PostInterview(b)
  \/ \E fn \in { "generateQuiz", "generateFlashcards" } : CallWithoutCount(fn)
  \/ \E ok \in BOOLEAN : RouteResume(ok)
  \/ RouteClose

----------------------------------------------------------------------------
(* The topics table and its two writing routes *)

\* How many topics the model lets the table hold.
MaxTopics == 2

ProgressValues ==
  { Absent, Null, Num(0), Num(50), Num(100), Num(-1), Num(101), Str("50"),
    Fraction }

TopicBodies ==
  [op : { "POST /api/topics" }, id : { 0 }, title : { Absent, Str("T1") },
   progress : ProgressValues]

PatchBodies ==
  [op : { "PATCH /api/topics/:id/progress" }, id : 1..MaxTopics,
   title : { Absent }, progress : ProgressValues]

NoTopicRequest == [op |-> "none", id |-> 0, title |-> Absent, progress |-> Absent]

\* insertTopicSchema = createInsertSchema(topics).omit({ id, createdAt,
\* updatedAt }): title is a required string; progress is kept, an optional
\* and nullable integer with no range of its own.
insertTopicSchemaAccepts(b) ==
  /\ b.title.t = "string"
  /\ \/ b.progress.t = "undefined"
     \/ b.progress = Null
     \/ b.progress.t = "number" /\ b.progress.whole

\* progress: integer("progress").default(0)
DefaultProgress == Num(0)

\* db.insert(topics).values(topic): the row as stored.
createTopic(table, b) ==
  Append(table, [title |-> b.title,
                 progress |-> DefaultTo(b.progress, DefaultProgress)])

\* typeof progress !== "number" || progress < 0 || progress > 100
InvalidProgress(v) == v.t # "number" \/ v.n < 0 \/ v.n > 100

\* db.update(topics).set({ progress }).where(eq(topics.id, id)): rows
\* with another id, and a table without the id, stay as they are.
updateTopicProgress(table, id, v) ==
  IF id \in DOMAIN table THEN [table EXCEPT ![id].progress = v] ELSE table

TopicsIdle ==
  /\ topics = << >>
  /\ tbefore = << >>
  /\ treq = NoTopicRequest
  /\ tstatus = 0

\* POST /api/topics: a body the schema refuses, or a row the insert
\* refuses, ends in the catch block with 500 and no row.  (The learning
\* session, XP and streak writes that follow the insert touch other
\* tables.)
PostTopic(b) ==
  /\ Len(topics) < MaxTopics
  /\ treq' = b
  /\ tbefore' = topics
  /\ IF insertTopicSchemaAccepts(b)
     THEN /\ topics' = createTopic(topics, b)
          /\ tstatus' = 200
     ELSE /\ topics' = topics
          /\ tstatus' = 500
  /\ UNCHANGED <<genVars, stripVars, routeVars, dataVars>>

\* PATCH /api/topics/:id/progress: 400 for a value the check refuses; the
\* integer column refuses a number with a fraction, which ends in 500.
PatchProgress(b) ==
  /\ treq' = b
  /\ tbefore' = topics
  /\ IF InvalidProgress(b.progress)
     THEN /\ topics' = topics
          /\ tstatus' = 400
     ELSE IF ~b.progress.whole
     THEN /\ topics' = topics
          /\ tstatus' = 500
     ELSE /\ topics' = updateTopicProgress(topics, b.id, b.progress)
          /\ tstatus' = 200
  /\ UNCHANGED <<genVars, stripVars, routeVars, dataVars>>

TopicsNext ==
  \/ \E b \in TopicBodies : PostTopic(b)
  \/ \E b \in PatchBodies : PatchProgress(b)

----------------------------------------------------------------------------
(* Post likes: togglePostLike on one post *)

Users == { "u1", "u2", "u3" }

\* Two like requests may be in flight at once.
Likers == { "k1", "k2" }

\* How many toggles the model lets start.
MaxToggles == 4

\* const [existingLike] = await db.select().from(postLikes).where(...)
existingLike(rows, u) == u \in rows

\* db.delete(postLikes).where(...): no row, no error.
deleteLike(rows, u) == rows \ { u }

\* db.insert(postLikes).values(...) under unique(postId, userId): a second
\* row for the pair is refused.
insertLikeRefused(rows, u) == u \in rows

insertLike(rows, u) == rows \cup { u }

\* likeCount: integer("like_count").default(0); the post starts unliked.
LikesIdle ==
  /\ likeRows = {}
  /\ likeCount = 0
  /\ lpc = [k \in Likers |-> "idle"]
  /\ luser = [k \in Likers |-> "none"]
  /\ lfound = [k \in Likers |-> FALSE]
  /\ lstatus = [k \in Likers |-> 0]
  /\ ltoggles = 0

\* POST /api/posts/:id/like by user u enters togglePostLike.
LikeStart(k, u) ==
  /\ lpc[k] = "idle"
  /\ ltoggles < MaxToggles
  /\ lpc' = [lpc EXCEPT ![k] = "select"]
  /\ luser' = [luser EXCEPT ![k] = u]
  /\ lstatus' = [lstatus EXCEPT ![k] = 0]
  /\ ltoggles' = ltoggles + 1
  /\ UNCHANGED <<likeRows, likeCount, lfound, notLikeVars>>

\* The select statement.
LikeSelect(k) ==
  /\ lpc[k] = "select"
  /\ lfound' = [lfound EXCEPT ![k] = existingLike(likeRows, luser[k])]
  /\ lpc' = [lpc EXCEPT ![k] = "write"]
  /\ UNCHANGED <<likeRows, likeCount, luser, lstatus, ltoggles, notLikeVars>>

\* The delete or the insert statement; a refused insert throws, and the
\* route answers 500.
LikeWrite(k) ==
  /\ lpc[k] = "write"
  /\ IF lfound[k]
     THEN /\ likeRows' = deleteLike(likeRows, luser[k])
          /\ lpc' = [lpc EXCEPT ![k] = "count"]
          /\ UNCHANGED lstatus
     ELSE IF insertLikeRefused(likeRows, luser[k])
     THEN /\ lpc' = [lpc EXCEPT ![k] = "idle"]
          /\ lstatus' = [lstatus EXCEPT ![k] = 500]
          /\ UNCHANGED likeRows
     ELSE /\ likeRows' = insertLike(likeRows, luser[k])
          /\ lpc' = [lpc EXCEPT ![k] = "count"]
          /\ UNCHANGED lstatus
  /\ UNCHANGED <<likeCount, luser, lfound, ltoggles, notLikeVars>>

\* The update of posts.likeCount (one statement: likeCount - 1 or + 1),
\* then res.json({ success: true }).
LikeCountUpdate(k) ==
  /\ lpc[k] = "count"
  /\ likeCount' = IF lfound[k] THEN likeCount - 1 ELSE likeCount + 1
  /\ lpc' = [lpc EXCEPT ![k] = "idle"]
  /\ lstatus' = [lstatus EXCEPT ![k] = 200]
  /\ UNCHANGED <<likeRows, luser, lfound, ltoggles, notLikeVars>>

LikesNext ==
  \/ \E k \in Likers, u \in Users : LikeStart(k, u)
  \/ \E k \in Likers : LikeSelect(k)
  \/ \E k \in Likers : LikeWrite(k)
  \/ \E k \in Likers : LikeCountUpdate(k)

----------------------------------------------------------------------------
(* Study groups: createStudyGroup and joinStudyGroup *)

\* How many groups the model lets the table hold.
MaxGroups == 2

\* The body of POST /api/study-groups: insertStudyGroupSchema omits id and
\* createdAt only, so a memberCount of the body is kept.
GroupBodies == [name : { Str("G") }, memberCount : { Absent, Num(5) }]

\* memberCount: integer("member_count").default(1)
DefaultMemberCount == 1

\* db.insert(studyGroups).values(group), then the creator's member row.
createStudyGroup(table, group) ==
  Append(table,
    [creatorId |-> group.creatorId,
     memberCount |-> DefaultTo(group.memberCount, Num(DefaultMemberCount)),
     members |-> { [userId |-> group.creatorId, role |-> "admin"] }])

\* The insert of joinStudyGroup is refused for a group that is not there
\* (foreign key) and for a pair that is there (unique(groupId, userId)).
joinRefused(table, id, u) ==
  \/ id \notin DOMAIN table
  \/ \E m \in table[id].members : m.userId = u

\* role: varchar("role").default("member"); then memberCount + 1.
joinStudyGroup(table, id, u) ==
  [table EXCEPT
     ![id].members = @ \cup { [userId |-> u, role |-> "member"] },
     ![id].memberCount = Num(@.n + 1)]

GroupsIdle ==
  /\ sgroups = << >>
  /\ sgstatus = 0

\* POST /api/study-groups by session user u.
PostStudyGroup(u, b) ==
  /\ Len(sgroups) < MaxGroups
  /\ sgroups' = createStudyGroup(sgroups,
                  [name |-> b.name, memberCount |-> b.memberCount,
                   creatorId |-> u])
  /\ sgstatus' = 200
  /\ UNCHANGED notGroupVars

\* POST /api/study-groups/:id/join by session user u.
PostJoin(u, id) ==
  /\ IF joinRefused(sgroups, id, u)
     THEN /\ sgstatus' = 500
          /\ UNCHANGED sgroups
     ELSE /\ sgroups' = joinStudyGroup(sgroups, id, u)
          /\ sgstatus' = 200
  /\ UNCHANGED notGroupVars

GroupsNext ==
  \/ \E u \in Users, b \in GroupBodies : PostStudyGroup(u, b)
  \/ \E u \in Users, id \in 1..MaxGroups : PostJoin(u, id)

----------------------------------------------------------------------------
(* The registered routes: isAuthenticated and the owner of created rows *)

\* Every app.METHOD(path, ...) of setupGoogleAuth and registerRoutes: whether
\* isAuthenticated stands before the handler, and what the handler writes
\* (a table, "provider" for a model call only, "none" for a read).
RouteTable ==
  {
    [method |-> "GET", path |-> "/api/login", guarded |-> FALSE, writes |-> "none"],
    [method |-> "GET", path |-> "/api/auth/google/callback", guarded |-> FALSE, writes |-> "users"],
    [method |-> "GET", path |-> "/api/logout", guarded |-> FALSE, writes |-> "none"],
    [method |-> "GET", path |-> "/api/auth/user", guarded |-> TRUE, writes |-> "none"],
    [method |-> "POST", path |-> "/api/topics", guarded |-> TRUE, writes |-> "topics"],
    [method |-> "GET", path |-> "/api/topics", guarded |-> TRUE, writes |-> "none"],
    [method |-> "GET", path |-> "/api/topics/:id", guarded |-> TRUE, writes |-> "none"],
    [method |-> "GET", path |-> "/api/topics/:topicId/flashcards", guarded |-> TRUE, writes |-> "none"],
    [method |-> "PATCH", path |-> "/api/topics/:id/progress", guarded |-> TRUE, writes |-> "progress"],
    [method |-> "POST", path |-> "/api/ai/explain", guarded |-> TRUE, writes |-> "provider"],
    [method |-> "POST", path |-> "/api/ai/chat", guarded |-> TRUE, writes |-> "provider"],
    [method |-> "POST", path |-> "/api/ai/quiz", guarded |-> TRUE, writes |-> "quizzes"],
    [method |-> "POST", path |-> "/api/ai/flashcards", guarded |-> TRUE, writes |-> "flashcards"],
    [method |-> "POST", path |-> "/api/ai/interview", guarded |-> TRUE, writes |-> "provider"],
    [method |-> "POST", path |-> "/api/quizzes/:id/attempt", guarded |-> TRUE, writes |-> "quiz_attempts"],
    [method |-> "GET", path |-> "/api/feed", guarded |-> TRUE, writes |-> "none"],
    [method |-> "POST", path |-> "/api/posts", guarded |-> TRUE, writes |-> "posts"],
    [method |-> "POST", path |-> "/api/posts/:id/like", guarded |-> TRUE, writes |-> "post_likes"],
    [method |-> "POST", path |-> "/api/posts/:id/comment", guarded |-> TRUE, writes |-> "post_comments"],
    [method |-> "GET", path |-> "/api/study-groups", guarded |-> TRUE, writes |-> "none"],
    [method |-> "POST", path |-> "/api/study-groups", guarded |-> TRUE, writes |-> "study_groups"],
    [method |-> "POST", path |-> "/api/study-groups/:id/join", guarded |-> TRUE, writes |-> "study_group_members"],
    [method |-> "POST", path |-> "/api/upload", guarded |-> TRUE, writes |-> "none"],
    [method |-> "GET", path |-> "/api/user/achievements", guarded |-> TRUE, writes |-> "none"],
    [method |-> "GET", path |-> "/api/user/quiz-attempts", guarded |-> TRUE, writes |-> "none"],
    [method |-> "GET", path |-> "/api/leaderboard", guarded |-> TRUE, writes |-> "none"],
    [method |-> "GET", path |-> "/api/user/stats", guarded |-> TRUE, writes |-> "none"],
    [method |-> "GET", path |-> "/api/youtube/search", guarded |-> TRUE, writes |-> "none"],
    [method |-> "GET", path |-> "/api/user/completed-quizzes-count", guarded |-> TRUE, writes |-> "none"],
    [method |-> "GET", path |-> "/api/user/completed-topics-count", guarded |-> TRUE, writes |-> "none"] }

\* The login, callback and logout routes of setupGoogleAuth.
OpenPaths == { "/api/login", "/api/auth/google/callback", "/api/logout" }

\* req.user: "none" without a session, else the user's id.
SessionUsers == { "none" } \cup Users

\* The userId and creatorId fields of a request body ("none": not there).
OwnerBodies == [userId : SessionUsers, creatorId : SessionUsers]

NoApiRequest ==
  [method |-> "none", path |-> "none", guarded |-> FALSE, writes |-> "none",
   user |-> "none", body |-> [userId |-> "none", creatorId |-> "none"]]

\* A variant that lets every request through.
letThrough(user) == TRUE

\* if (req.isAuthenticated()) return next(); res.status(401)
isAuthenticated(user) == user # "none"

\* A variant with the spread after the key: { userId, ...req.body }.
SpreadBefore(body, field, v) ==
  IF body[field] = "none" THEN [body EXCEPT ![field] = v] ELSE body

\* { ...req.body, userId } and { ...req.body, creatorId: userId }: the
\* key written after the spread wins.
SpreadThen(body, field, v) == [body EXCEPT ![field] = v]

\* The handlers that call getUserId(req), which throws without a user.
CallsGetUserId(r) == r.writes \notin { "none", "provider", "progress", "users" }

\* The handlers that call a generate function.
CallsProvider(r) == r.writes \in { "provider", "quizzes", "flashcards" }

Row(table, owner) == [table |-> table, owner |-> owner]

\* The rows a handler creates for session user u, with the owner each is
\* stored with.
CreatedRows(r, u) ==
  CASE r.writes = "topics" ->
         { Row("topics", SpreadThen(r.body, "userId", u).userId),
           Row("learning_sessions", u) }
    [] r.writes = "posts" ->
         { Row("posts", SpreadThen(r.body, "userId", u).userId) }
    [] r.writes = "study_groups" ->
         LET group == SpreadThen(r.body, "creatorId", u)
         IN  { Row("study_groups", group.creatorId),
               Row("study_group_members", group.creatorId) }
    [] r.writes = "quiz_attempts" ->
         { Row("quiz_attempts", u), Row("learning_sessions", u) }
    [] r.writes \in { "quizzes", "flashcards", "post_likes", "post_comments",
                      "study_group_members" } ->
         { Row(r.writes, u) }
    [] OTHER -> {}

ApiIdle ==
  /\ areq = NoApiRequest
  /\ astage = "idle"
  /\ astatus = 0
  /\ arows = {}
  /\ awrote = FALSE
  /\ acalls = 0

\* A request arrives, with or without a session.
ApiArrive(r, user, b) ==
  /\ astage = "idle"
  /\ areq' = [method |-> r.method, path |-> r.path, guarded |-> r.guarded,
              writes |-> r.writes, user |-> user, body |-> b]
  /\ astage' = "middleware"
  /\ UNCHANGED <<astatus, arows, awrote, acalls, notApiVars>>

\* The middleware in front of the handler.
ApiMiddleware ==
  /\ astage = "middleware"
  /\ IF areq.guarded /\ ~isAuthenticated(areq.user)
     THEN /\ astage' = "done"
          /\ astatus' = 401
     ELSE /\ astage' = "handler"
          /\ UNCHANGED astatus
  /\ UNCHANGED <<areq, arows, awrote, acalls, notApiVars>>

\* The handler: getUserId throws without a user (500); otherwise it makes
\* its provider call and its writes and answers (ok), or fails before any
\* of them and answers from its catch block.
ApiHandler(ok) ==
  /\ astage = "handler"
  /\ astage' = "done"
  /\ IF CallsGetUserId(areq) /\ areq.user = "none"
     THEN /\ astatus' = 500
          /\ UNCHANGED <<arows, awrote, acalls>>
     ELSE IF ok
     THEN /\ astatus' = 200
          /\ arows' = CreatedRows(areq, areq.user)
          /\ awrote' = (areq.writes \notin { "none", "provider" })
          /\ acalls' = IF CallsProvider(areq) THEN 1 ELSE 0
     ELSE /\ astatus' = 500
          /\ UNCHANGED <<arows, awrote, acalls>>
  /\ UNCHANGED <<areq, notApiVars>>

ApiDone ==
  /\ astage = "done"
  /\ areq' = NoApiRequest
  /\ astage' = "idle"
  /\ astatus' = 0
  /\ arows' = {}
  /\ awrote' = FALSE
  /\ acalls' = 0
  /\ UNCHANGED notApiVars

ApiNext ==
  \/ \E r \in RouteTable, user \in SessionUsers, b \in OwnerBodies :
       ApiArrive(r, user, b)
  \/ ApiMiddleware
  \/ \E ok \in BOOLEAN : ApiHandler(ok)
  \/ ApiDone

----------------------------------------------------------------------------
(* The learning-session chat of the client *)

\* How many questions the model lets the user submit.
MaxSubmits == 5

\* The placeholder shown while a request is pending.
Thinking == "Thinking..."

\* { role, parts: [{ text }] }
Msg(role, text) == [role |-> role, text |-> text]

\* chatInput.trim() of the n-th submit (a new question each time) and the
\* answer of the response to it.
Question(n) == "Q" \o ToString(n)

AnswerTo(n) == "A" \o ToString(n)

\* prev.filter(m => m.parts[0].text !== 'Thinking...')
WithoutThinking(h) == SelectSeq(h, LAMBDA m : m.text # Thinking)

\* useState<ChatMessage[]>([]); no mutation started.
ChatIdle ==
  /\ chatHistory = << >>
  /\ cpending = FALSE
  /\ cvariables = "none"
  /\ csent = << >>
  /\ csubmits = 0
  /\ canswered = << >>

\* handleChatSubmit with a non-blank input: the question and the
\* placeholder are appended and the mutation starts. mutationFn reads
\* chatHistory from the closure of a render: the one the submit came from,
\* or (late) the one after the update.
ChatSubmit(late) ==
  /\ ~cpending
  /\ csubmits < MaxSubmits
  /\ LET q == Question(csubmits + 1)
         h == chatHistory \o << Msg("user", q), Msg("model", Thinking) >>
     IN  /\ chatHistory' = h
         /\ cvariables' = q
         /\ csent' = IF late THEN h ELSE chatHistory
  /\ cpending' = TRUE
  /\ csubmits' = csubmits + 1
  /\ UNCHANGED <<canswered, notChatVars>>

\* onSuccess(data, variables)
ChatSuccess ==
  /\ cpending
  /\ chatHistory' = WithoutThinking(chatHistory)
                      \o << Msg("user", cvariables),
                            Msg("model", AnswerTo(csubmits)) >>
  /\ cpending' = FALSE
  /\ canswered' = Append(canswered, csubmits)
  /\ UNCHANGED <<cvariables, csent, csubmits, notChatVars>>

\* onError
ChatError ==
  /\ cpending
  /\ chatHistory' = WithoutThinking(chatHistory)
  /\ cpending' = FALSE
  /\ UNCHANGED <<cvariables, csent, csubmits, canswered, notChatVars>>

ChatNext ==
  \/ \E late \in BOOLEAN : ChatSubmit(late)
  \/ ChatSuccess
  \/ ChatError

----------------------------------------------------------------------------
(* The streak of a user: updateUserStreak *)

\* The last calendar day the clock of the model reaches.
MaxDay == 4

\* A timestamp: a calendar day and an hour of it (local time).
Date(d, h) == [set |-> TRUE, day |-> d, hour |-> h]

\* lastLearningDate: timestamp("last_learning_date"), null at first.
NoDate == [set |-> FALSE, day |-> 0, hour |-> 0]

\* A variant that leaves the time of day in place.
AsIs(ts) == ts

\* date.setHours(0, 0, 0, 0)
AtMidnight(ts) == [ts EXCEPT !.hour = 0]

\* yesterday.setDate(yesterday.getDate() - 1)
DayBefore(ts) == [ts EXCEPT !.day = @ - 1]

\* let newStreak = 1; if (lastLearning) { ... }, with today taken from the
\* clock.
newStreak(user, clock) ==
  LET today == AtMidnight(clock)
      yesterday == DayBefore(today)
  IN  IF ~user.lastLearningDate.set THEN 1
      ELSE LET lastLearning == AtMidnight(user.lastLearningDate)
           IN  IF lastLearning = yesterday THEN user.streak + 1
               ELSE IF lastLearning = today THEN user.streak
               ELSE 1

\* streak: integer("streak").default(0); the first morning.
StreakIdle ==
  /\ now = Date(1, 0)
  /\ urow = [streak |-> 0, lastLearningDate |-> NoDate]
  /\ upc = "idle"
  /\ unew = 0
  /\ ubefore = [streak |-> 0, lastLearningDate |-> NoDate]
  /\ utoday = 0

\* Time passes: from the morning to the afternoon, to the next morning.
StreakTick ==
  /\ now.hour = 0 \/ now.day < MaxDay
  /\ now' = IF now.hour = 0 THEN Date(now.day, 12) ELSE Date(now.day + 1, 0)
  /\ UNCHANGED <<urow, upc, unew, ubefore, utoday, notStreakVars>>

\* getUser, new Date() and the computation of newStreak.
StreakRead ==
  /\ upc \in { "idle", "written" }
  /\ ubefore' = urow
  /\ utoday' = now.day
  /\ unew' = newStreak(urow, now)
  /\ upc' = "write"
  /\ UNCHANGED <<now, urow, notStreakVars>>

\* db.update(users).set({ streak: newStreak, lastLearningDate: new Date() })
StreakWrite ==
  /\ upc = "write"
  /\ urow' = [streak |-> unew, lastLearningDate |-> now]
  /\ upc' = "written"
  /\ UNCHANGED <<now, unew, ubefore, utoday, notStreakVars>>

StreakNext ==
  \/ StreakTick
  \/ StreakRead
  \/ StreakWrite

----------------------------------------------------------------------------
(* The xp and level of a user: updateUserXP *)

\* How many updateUserXP calls the model lets start.
MaxXpCalls == 4

\* Two updates of the same user may be in flight at once.
Updaters == { "x1", "x2" }

\* xpGained: 10 for a new topic, up to 50 for a quiz attempt, and larger
\* gains that reach the level boundaries.
Gains == { 0, 10, 50, 500, 990 }

\* The xp of one level.
LevelSize == 1000

\* A variant of the CASE with > for >=.
levelAfterStrict(row, gain) ==
  IF row.xp + gain > LevelSize
  THEN ((row.xp + gain) \div LevelSize) + 1
  ELSE row.level

\* CASE WHEN xp + gain >= 1000 THEN FLOOR((xp + gain) / 1000) + 1
\* ELSE level END
levelAfter(row, gain) ==
  IF row.xp + gain >= LevelSize
  THEN ((row.xp + gain) \div LevelSize) + 1
  ELSE row.level

\* The UPDATE statement: both columns are computed from the row as it is
\* when the statement runs.
updateUserXP(row, gain) ==
  [xp |-> row.xp + gain, level |-> levelAfter(row, gain)]

\* xp: integer("xp").default(0), level: integer("level").default(1)
XpIdle ==
  /\ xrow = [xp |-> 0, level |-> 1]
  /\ xpc = [k \in Updaters |-> "idle"]
  /\ xgain = [k \in Updaters |-> 0]
  /\ xrequested = 0
  /\ xcalls = 0
  /\ xoverlap = FALSE

\* A handler calls updateUserXP(userId, gain).
XpCall(k, gain) ==
  /\ xpc[k] = "idle"
  /\ xcalls < MaxXpCalls
  /\ xpc' = [xpc EXCEPT ![k] = "update"]
  /\ xgain' = [xgain EXCEPT ![k] = gain]
  /\ xrequested' = xrequested + gain
  /\ xcalls' = xcalls + 1
  /\ xoverlap' = (xoverlap \/ \E j \in Updaters \ { k } : xpc[j] = "update")
  /\ UNCHANGED <<xrow, notXpVars>>

\* The database runs the statement and the call returns.
XpUpdate(k) ==
  /\ xpc[k] = "update"
  /\ xrow' = updateUserXP(xrow, xgain[k])
  /\ xpc' = [xpc EXCEPT ![k] = "idle"]
  /\ UNCHANGED <<xgain, xrequested, xcalls, xoverlap, notXpVars>>

XpNext ==
  \/ \E k \in Updaters, gain \in Gains : XpCall(k, gain)
  \/ \E k \in Updaters : XpUpdate(k)

----------------------------------------------------------------------------
(* POST /api/ai/flashcards: the cards are saved one by one *)

\* How many cards a generation holds at most, and how many requests the
\* model lets start.
MaxCards == 3

MaxCardRequests == 2

\* The i-th card of flashcardsData.cards: complete, or without a back (the
\* parsed reply is used as it comes).
CompleteCard(i) == [front |-> Str("F"), back |-> Str("B"), at |-> i]

CardWithoutBack(i) == [front |-> Str("F"), back |-> Absent, at |-> i]

GeneratedCards ==
  UNION { [1..n -> { "complete", "noBack" }] : n \in 0..MaxCards }

CardAt(kinds, i) ==
  IF kinds[i] = "complete" THEN CompleteCard(i) ELSE CardWithoutBack(i)

CardsOf(kinds) == [i \in DOMAIN kinds |-> CardAt(kinds, i)]

\* front: text("front").notNull(), back: text("back").notNull()
createFlashcardRefused(card) ==
  \/ card.front \in { Absent, Null }
  \/ card.back \in { Absent, Null }

\* db.insert(flashcards).values(flashcard).returning()
createFlashcard(table, card) == Append(table, card)

CardsIdle ==
  /\ ftable = << >>
  /\ fbefore = << >>
  /\ fcards = << >>
  /\ fidx = 0
  /\ savedCards = << >>
  /\ freturned = << >>
  /\ fstatus = 0
  /\ fpc = "idle"
  /\ frequests = 0

\* A request with topic and topicId; generateFlashcards returns.
CardsGenerated(kinds) ==
  /\ fpc \in { "idle", "done" }
  /\ frequests < MaxCardRequests
  /\ frequests' = frequests + 1
  /\ fbefore' = ftable
  /\ fcards' = CardsOf(kinds)
  /\ fidx' = 1
  /\ savedCards' = << >>
  /\ freturned' = << >>
  /\ fstatus' = 0
  /\ fpc' = "loop"
  /\ UNCHANGED <<ftable, notCardVars>>

\* A request with topic and topicId; generateFlashcards throws.
CardsGenerationFails ==
  /\ fpc \in { "idle", "done" }
  /\ frequests < MaxCardRequests
  /\ frequests' = frequests + 1
  /\ fbefore' = ftable
  /\ fcards' = << >>
  /\ fidx' = 0
  /\ savedCards' = << >>
  /\ freturned' = << >>
  /\ fstatus' = 500
  /\ fpc' = "done"
  /\ UNCHANGED <<ftable, notCardVars>>

\* One turn of the loop: await storage.createFlashcard(...), then push; a
\* refused insert throws into the catch block.
CardsSaveNext ==
  /\ fpc = "loop"
  /\ fidx <= Len(fcards)
  /\ IF createFlashcardRefused(fcards[fidx])
     THEN /\ fstatus' = 500
          /\ fpc' = "done"
          /\ UNCHANGED <<ftable, savedCards, fidx>>
     ELSE /\ ftable' = createFlashcard(ftable, fcards[fidx])
          /\ savedCards' = Append(savedCards, fcards[fidx])
          /\ fidx' = fidx + 1
          /\ UNCHANGED <<fstatus, fpc>>
  /\ UNCHANGED <<fbefore, fcards, freturned, frequests, notCardVars>>

\* res.json({ flashcards: savedCards })
CardsRespond ==
  /\ fpc = "loop"
  /\ fidx > Len(fcards)
  /\ freturned' = savedCards
  /\ fstatus' = 200
  /\ fpc' = "done"
  /\ UNCHANGED <<ftable, fbefore, fcards, fidx, savedCards, frequests,
                 notCardVars>>

CardsNext ==
  \/ \E kinds \in GeneratedCards : CardsGenerated(kinds)
  \/ CardsGenerationFails
  \/ CardsSaveNext
  \/ CardsRespond

\* Every table empty and every request handler idle.
DataIdle ==
  /\ LikesIdle
  /\ GroupsIdle
  /\ ApiIdle
  /\ ChatIdle
  /\ StreakIdle
  /\ XpIdle
  /\ CardsIdle

----------------------------------------------------------------------------
(* Calls *)

\* Two calls may be in flight at once.
Calls == { "c1", "c2" }

\* Not the code: the settlement lands in a slot every call reads.
DeliverShared(resp, c, r) == [d \in DOMAIN resp |-> r]

\* The awaited promise settles into the local of the call that awaits it.
Deliver(resp, c, r) == [resp EXCEPT ![c] = r]

\* Not the code: a failed call issues its request again.
LeaveRetrying(out, n) ==
  IF out.tag = "throw" /\ n = 1
  THEN [pc |-> "awaiting", sent |-> n + 1]
  ELSE [pc |-> "done", sent |-> n]

\* How a call leaves its function: by return or by the throw of its catch
\* block; neither path loops back to the provider.
Leave(out, n) == [pc |-> "done", sent |-> n]

Init ==
  /\ impl \in Impls
  /\ pc = [c \in Calls |-> "idle"]
  /\ task = [c \in Calls |-> NoTask]
  /\ prompt = [c \in Calls |-> NoPrompt]
  /\ sent = [c \in Calls |-> 0]
  /\ response = [c \in Calls |-> Pending]
  /\ given = [c \in Calls |-> Pending]
  /\ result = [c \in Calls |-> NoResult]
  /\ StripIdle
  /\ RouteIdle
  /\ TopicsIdle
  /\ DataIdle

\* The caller invokes a generate function: the prompt is built and the
\* provider request is issued, up to the await.
Invoke(c, t) ==
  /\ pc[c] = "idle"
  /\ pc' = [pc EXCEPT ![c] = "awaiting"]
  /\ task' = [task EXCEPT ![c] = t]
  /\ prompt' = [prompt EXCEPT ![c] = BuildPrompt(impl, t)]
  /\ sent' = [sent EXCEPT ![c] = sent[c] + 1]
  /\ UNCHANGED <<impl, response, given, result, stripVars, routeVars, topicVars, dataVars>>

\* The provider answers the request of call c.
ProviderResolve(c, r) ==
  /\ pc[c] = "awaiting"
  /\ pc' = [pc EXCEPT ![c] = "settled"]
  /\ response' = Deliver(response, c, r)
  /\ given' = [given EXCEPT ![c] = r]
  /\ UNCHANGED <<impl, task, prompt, sent, result, stripVars, routeVars, topicVars, dataVars>>

\* The provider call fails (network, auth, quota, safety block), or
\* response.text() throws on a blocked response: control enters the catch
\* block.
ProviderReject(c) ==
  /\ pc[c] = "awaiting"
  /\ pc' = [pc EXCEPT ![c] = "settled"]
  /\ response' = Deliver(response, c, Rejected)
  /\ given' = [given EXCEPT ![c] = Rejected]
  /\ UNCHANGED <<impl, task, prompt, sent, result, stripVars, routeVars, topicVars, dataVars>>

\* The continuation after the await: text extraction, cleanup, parse, and
\* the return or the catch block.
Resume(c) ==
  /\ pc[c] = "settled"
  /\ LET out == Generate(impl, task[c].kind, response[c])
         nxt == Leave(out, sent[c])
     IN  /\ result' = [result EXCEPT ![c] = out]
         /\ pc' = [pc EXCEPT ![c] = nxt.pc]
         /\ sent' = [sent EXCEPT ![c] = nxt.sent]
  /\ UNCHANGED <<impl, task, prompt, response, given, stripVars, routeVars, topicVars, dataVars>>

\* The caller has taken the outcome; the call's frame is gone.
Finish(c) ==
  /\ pc[c] = "done"
  /\ pc' = [pc EXCEPT ![c] = "idle"]
  /\ task' = [task EXCEPT ![c] = NoTask]
  /\ prompt' = [prompt EXCEPT ![c] = NoPrompt]
  /\ sent' = [sent EXCEPT ![c] = 0]
  /\ response' = [response EXCEPT ![c] = Pending]
  /\ given' = [given EXCEPT ![c] = Pending]
  /\ result' = [result EXCEPT ![c] = NoResult]
  /\ UNCHANGED <<impl, stripVars, routeVars, topicVars, dataVars>>

Next ==
  \/ \E c \in Calls, t \in Tasks(impl) : Invoke(c, t)
  \/ \E c \in Calls : \E r \in Fulfilments(impl, task[c].kind) : ProviderResolve(c, r)
  \/ \E c \in Calls : ProviderReject(c)
  \/ \E c \in Calls : Resume(c)
  \/ \E c \in Calls : Finish(c)

Spec == Init /\ [][Next]_vars

----------------------------------------------------------------------------
(* The strip harness, next-state relation and specification *)

StripNext ==
  \/ StripOnce
  \/ StripTwice

\* The harness runs beside an idle deployment of part_002.
StripSpecInit ==
  /\ impl = "fenced"
  /\ pc = [c \in Calls |-> "idle"]
  /\ task = [c \in Calls |-> NoTask]
  /\ prompt = [c \in Calls |-> NoPrompt]
  /\ sent = [c \in Calls |-> 0]
  /\ response = [c \in Calls |-> Pending]
  /\ given = [c \in Calls |-> Pending]
  /\ result = [c \in Calls |-> NoResult]
  /\ StripInit
  /\ RouteIdle
  /\ TopicsIdle
  /\ DataIdle

SpecStrip == StripSpecInit /\ [][StripNext]_vars

\* The AI routes, one request at a time, under each implementation.
SpecRoute == Init /\ [][RouteNext]_vars

\* The topics table under its two writing routes.
SpecTopics == Init /\ [][TopicsNext]_vars
SpecLikes == Init /\ [][LikesNext]_vars
SpecGroups == Init /\ [][GroupsNext]_vars
SpecApi == Init /\ [][ApiNext]_vars
SpecChat == Init /\ [][ChatNext]_vars
SpecStreak == Init /\ [][StreakNext]_vars
SpecXp == Init /\ [][XpNext]_vars
SpecCards == Init /\ [][CardsNext]_vars

----------------------------------------------------------------------------
(* Vocabulary of the claims *)

\* The failure kind of an outcome, by the cause its catch block saw.
KindOf(out) ==
  CASE out.tag # "throw"                        -> "none"
    [] out.logged = "ProviderError"             -> "ProviderError"
    [] out.logged = "Empty response from model" -> "EmptyResponse"
    [] out.logged = "SyntaxError"               -> "MalformedJSON"
    [] OTHER                                    -> out.logged

Done(c) == pc[c] = "done"

\* Call c was answered with a text that is empty or missing.
AnsweredEmpty(c) == given[c].status = "ok" /\ Falsy(given[c])

\* Call c was answered with a text that is there and not empty.
AnsweredText(c) == given[c].status = "ok" /\ ~Falsy(given[c])

\* The quiz shape: a questions array whose elements have a non-empty
\* question, exactly 4 options and a correctAnswer in 0..3.
ValidQuestion(q) ==
  /\ q.question # ""
  /\ Len(q.options) = 4
  /\ q.correctAnswer \in 0..3

ValidQuiz(v) ==
  /\ "questions" \in DOMAIN v
  /\ \A n \in 1..Len(v.questions) : ValidQuestion(v.questions[n])

\* The flashcard shape: a cards array of non-empty front and back.
ValidCards(v) ==
  /\ "cards" \in DOMAIN v
  /\ \A n \in 1..Len(v.cards) : v.cards[n].front # "" /\ v.cards[n].back # ""

\* The interview shape: a questions array of non-empty strings and tips.
ValidInterview(v) ==
  /\ "questions" \in DOMAIN v
  /\ "tips" \in DOMAIN v
  /\ \A n \in 1..Len(v.questions) : v.questions[n] # ""

----------------------------------------------------------------------------
(* Claims *)

\* C1: for every task kind, a provider text that is empty or null ends the
\* call in an EmptyResponse failure, never in a returned value.
C1_EmptyTextAlwaysFails ==
  \A c \in Calls :
    Done(c) /\ AnsweredEmpty(c) =>
      result[c].tag = "throw" /\ KindOf(result[c]) = "EmptyResponse"

\* C2: for a structured task, a text that is not valid JSON ends the call
\* in a MalformedJSON failure that carries the raw text unmodified.
C2_MalformedJSONCarriesRaw ==
  \A c \in Calls :
    /\ Done(c)
    /\ task[c].kind \in StructuredKinds
    /\ AnsweredText(c)
    /\ given[c].text = NotJson
    => /\ result[c].tag = "throw"
       /\ KindOf(result[c]) = "MalformedJSON"
       /\ result[c].carried = [present |-> TRUE, text |-> NotJson]

\* C3: a Quiz call returns no value that violates the quiz shape; 3 options
\* fail with ShapeMismatch naming options, correctAnswer 5 with
\* ShapeMismatch naming correctAnswer.
C3_QuizShapeChecked ==
  \A c \in Calls :
    Done(c) /\ task[c].kind = "Quiz" =>
      /\ result[c].tag = "return" => ValidQuiz(result[c].value)
      /\ given[c] = Fulfilled(<<"QUIZ_3OPT">>) =>
           KindOf(result[c]) = "ShapeMismatch: options"
      /\ given[c] = Fulfilled(<<"QUIZ_CA5">>) =>
           KindOf(result[c]) = "ShapeMismatch: correctAnswer"

\* C4: a FlashcardSet call returns only a value of the flashcard shape and
\* an InterviewQuestions call only a value of the interview shape.
C4_CardsAndInterviewShapeChecked ==
  \A c \in Calls :
    Done(c) /\ result[c].tag = "return" =>
      /\ task[c].kind = "FlashcardSet" => ValidCards(result[c].value)
      /\ task[c].kind = "InterviewQuestions" => ValidInterview(result[c].value)

\* C5: every failure is terminal: a call whose provider request failed
\* returns nothing, and a returned text is the provider's own text, never a
\* default, a fallback or a canned replacement.
C5_NoFallbackValue ==
  \A c \in Calls :
    Done(c) =>
      /\ given[c].status = "error" => result[c].tag = "throw"
      /\ task[c].kind \notin StructuredKinds /\ result[c].tag = "return" =>
           /\ result[c].value.text = given[c].text
           /\ result[c].value.text \notin { CannedExplanation, CannedChatReply }

\* C6: a call issues at most one provider request; a call that failed has
\* left its function with that one request issued.
C6_AtMostOneRequest ==
  \A c \in Calls :
    /\ sent[c] <= 1
    /\ result[c].tag = "throw" => pc[c] = "done" /\ sent[c] = 1

\* C6 witness: one call failed on the provider, the other on an empty
\* response, each after exactly one request.
C6_Witness ==
  /\ Done("c1") /\ KindOf(result["c1"]) = "ProviderError" /\ sent["c1"] = 1
  /\ Done("c2") /\ KindOf(result["c2"]) = "EmptyResponse" /\ sent["c2"] = 1

\* C7: a failed provider call ends the call in a failure without a value,
\* and the caller can tell that failure from one with another cause.
C7_ProviderErrorDistinct ==
  \A c, d \in Calls :
    Done(c) /\ given[c].status = "error" =>
      /\ result[c].tag = "throw"
      /\ result[c].value = Undefined
      /\ Done(d) /\ task[d].kind = task[c].kind /\ given[d].status = "ok"
           /\ result[d].tag = "throw"
         => result[d].message # result[c].message

\* C8: under every interleaving each call holds the prompt of its own task
\* and the settlement of its own request, and ends with the outcome of its
\* own task on its own provider response.
C8_NoInterference ==
  \A c \in Calls :
    /\ pc[c] # "idle" => prompt[c] = BuildPrompt(impl, task[c])
    /\ pc[c] = "settled" => response[c] = given[c]
    /\ pc[c] = "done" => result[c] = Generate(impl, task[c].kind, given[c])

\* C8 witness: two calls with different tasks and different provider
\* responses have both ended, one with a quiz and one with a text.
C8_Witness ==
  /\ Done("c1") /\ task["c1"].kind = "Quiz" /\ task["c1"].topic = "T1"
  /\ given["c1"] = Fulfilled(<<"QUIZ_OK">>) /\ result["c1"].tag = "return"
  /\ Done("c2") /\ task["c2"].kind = "Explanation" /\ task["c2"].topic = "T2"
  /\ given["c2"] = Fulfilled(LeftBrace) /\ result["c2"].tag = "return"

\* C9: a valid one-question quiz wrapped in a json code fence makes the
\* Quiz call return exactly one question with correctAnswer 2 and 4 options.
C9_FencedQuizRoundTrip ==
  \A c \in Calls :
    Done(c) /\ task[c].kind = "Quiz" /\ given[c] = Fulfilled(Fenced("QUIZ_OK")) =>
      /\ result[c].tag = "return"
      /\ "questions" \in DOMAIN result[c].value
      /\ Len(result[c].value.questions) = 1
      /\ result[c].value.questions[1].correctAnswer = 2
      /\ Len(result[c].value.questions[1].options) = 4

\* C10: stripping a stripped text changes nothing, and a text without a
\* fence marker is returned unchanged.
C10_StripIdempotent ==
  /\ sStage = "twice" => sz = sy
  /\ sStage # "raw" /\ ~Contains(sx, Fence) => sy = sx

\* C10 witness: a text whose json fence, once removed, leaves backticks
\* that join into a new fence has been stripped twice.
C10_Witness ==
  /\ sStage = "twice"
  /\ sx = <<BT>> \o FenceJson \o <<BT, BT>>
  /\ sy = <<>>
  /\ sz = <<>>

\* C11: a free-form call (Explanation, ChatTurn) that was answered with a
\* non-empty text returns exactly that text, unparsed and untrimmed.
C11_FreeFormVerbatim ==
  \A c \in Calls :
    Done(c) /\ task[c].kind \in { "Explanation", "ChatTurn" } /\ AnsweredText(c) =>
      /\ result[c].tag = "return"
      /\ result[c].value = [text |-> given[c].text]

\* C11 witness: an explanation answered "Left brace {" and a chat turn
\* answered with a padded text have both returned.
C11_Witness ==
  /\ impl = "fenced"
  /\ Done("c1") /\ task["c1"].kind = "Explanation"
  /\ given["c1"] = Fulfilled(LeftBrace) /\ result["c1"].tag = "return"
  /\ Done("c2") /\ task["c2"].kind = "ChatTurn"
  /\ given["c2"] = Fulfilled(Padded) /\ result["c2"].tag = "return"

----------------------------------------------------------------------------
(* Vocabulary of the claims about the routes *)

\* A provider request has been issued for the request being handled.
ProviderCalled == submitted.n > 0

\* The field of a body or of an argument list that names the subject.
SubjectOf(b) ==
  CASE b.op \in { "POST /api/ai/explain", "POST /api/ai/quiz",
                  "POST /api/ai/flashcards", "generateExplanation",
                  "generateQuiz", "generateFlashcards" }       -> b.topic
    [] b.op \in { "POST /api/ai/interview",
                  "generateInterviewQuestions" }               -> b.role
    [] b.op \in { "POST /api/ai/chat", "generateChatResponse" } -> b.topicTitle
    [] OTHER                                                    -> Absent

MissingOrEmpty(v) == v.t = "undefined" \/ (v.t = "string" /\ v.s = "")

\* The count argument of a quiz or flashcard call, and the one of the body.
CountOf(b) ==
  IF b.op \in { "POST /api/ai/quiz", "generateQuiz" }
  THEN b.questionCount ELSE b.cardCount

CountCall == gcall.op \in { "generateQuiz", "generateFlashcards" }

----------------------------------------------------------------------------
(* Claims C12-C20 *)

\* C12: the three difficulty templates are pairwise distinct, and every
\* explanation prompt handed to the provider starts with the template of
\* the request's level: no difficulty value ends in an empty or default
\* prompt.
C12_DifficultySelectionTotal ==
  /\ \A a, b \in Levels :
       a # b => ExplanationTemplate(Str(a), Str("T1"))
                  # ExplanationTemplate(Str(b), Str("T1"))
  /\ gcall.op = "generateExplanation" /\ ProviderCalled =>
       \E l \in Levels :
         /\ gcall.difficulty = Str(l)
         /\ submitted.prompt # << >>
         /\ Len(submitted.prompt) >= 3
         /\ SubSeq(submitted.prompt, 1, 3) = ExplanationTemplate(Str(l), gcall.topic)

\* C13 as stated: the chat messages are the persona instruction, then the
\* turns of the history, then the question, and nothing else.
C13_ChatSequenceExact ==
  gcall.op = "generateChatResponse" /\ ProviderCalled =>
    LET m == submitted.messages
        h == gcall.history.turns
    IN  /\ Len(m) = Len(h) + 2
        /\ m[1].text = IF impl = "fenced"
                       THEN SystemPrompt_P2(gcall.topicTitle, gcall.topicContent)
                       ELSE SystemPrompt_GA(gcall.topicTitle, gcall.topicContent)
        /\ SubSeq(m, 2, Len(m) - 1) = h
        /\ m[Len(m)] = [role |-> "user", text |-> << gcall.question.s >>]

\* C13: the chat messages are the persona instruction, then (in the first
\* module of gemini.ts only) one fixed greeting turn of the model, then
\* the turns of the history in their order, each once, then the question.
C13_ChatSequenceOrdered ==
  gcall.op = "generateChatResponse" /\ ProviderCalled =>
    LET m == submitted.messages
        h == gcall.history.turns
        g == IF impl = "fenced" THEN 0 ELSE 1
    IN  /\ Len(m) = Len(h) + 2 + g
        /\ m[1].text = IF impl = "fenced"
                       THEN SystemPrompt_P2(gcall.topicTitle, gcall.topicContent)
                       ELSE SystemPrompt_GA(gcall.topicTitle, gcall.topicContent)
        /\ g = 1 => m[2] = [role |-> "model", text |-> Greeting(gcall.topicTitle)]
        /\ SubSeq(m, 2 + g, Len(m) - 1) = h
        /\ m[Len(m)] = [role |-> "user", text |-> << gcall.question.s >>]

\* C13 witness: a chat call with a two-turn history (model turn first) has
\* handed its messages to the provider.
C13_Witness ==
  /\ impl = "generative-ai"
  /\ rst = "awaiting"
  /\ gcall.op = "generateChatResponse"
  /\ gcall.history.turns = << TurnM, TurnU >>
  /\ Len(submitted.messages) = 5
  /\ submitted.messages[5].text = << "Q2" >>

\* C14: the messages of a chat call are a function of its arguments: two
\* successive chat calls with equal arguments submit equal sequences, and
\* what a call submits is what a first call with its arguments submits.
C14_ChatStateless ==
  /\ session.open /\ prevSession.open /\ session.args = prevSession.args =>
       session.messages = prevSession.messages
  /\ gcall.op = "generateChatResponse" /\ ProviderCalled =>
       /\ session.args = gcall
       /\ submitted.messages = session.messages
       /\ submitted.messages = ChatMessages(impl, gcall, << >>)

\* C14 witness: a chat call is awaiting the provider after an earlier chat
\* call with the same arguments and a non-empty history.
C14_Witness ==
  /\ rst = "awaiting"
  /\ gcall.op = "generateChatResponse"
  /\ prevSession.open
  /\ prevSession.args = gcall
  /\ gcall.history.turns = << TurnU, TurnM >>

\* C15: a request whose topic, role or topicTitle is missing or empty is
\* answered 400 with no generate call and no provider request, and every
\* provider request is made for a non-empty subject.
C15_SubjectNonEmpty ==
  /\ rq.op # "none" /\ MissingOrEmpty(SubjectOf(rq)) =>
       /\ rst = "responded"
       /\ status = 400
       /\ gcall = NoCall
       /\ ~ProviderCalled
  /\ ProviderCalled =>
       /\ SubjectOf(gcall).t = "string"
       /\ SubjectOf(gcall).s # ""

\* C15 witness: a chat request with an empty topicTitle and every other
\* field in place has been answered 400.
C15_Witness ==
  /\ rq.op = "POST /api/ai/chat"
  /\ rq.topicTitle = Str("")
  /\ rq.topicContent = Str("About T1.")
  /\ rq.question = Str("Q1")
  /\ rst = "responded"
  /\ status = 400

\* C16: the count of every quiz or flashcard prompt handed to the provider
\* is a positive integer and not over-large.
C16_CountsPositiveBounded ==
  CountCall /\ ProviderCalled =>
    /\ CountOf(gcall).t = "number"
    /\ CountOf(gcall).whole
    /\ CountOf(gcall).n >= 1
    /\ CountOf(gcall).n < 1000000

\* C17: a quiz or flashcard call made without a count, or through a body
\* without one, asks for 5 questions or 10 cards; a count that the body
\* carries is the count of the call and of the prompt.
C17_DefaultCounts ==
  CountCall /\ ProviderCalled =>
    /\ submitted.prompt[2] = CountOf(gcall).s
    /\ rq.op = "none" \/ CountOf(rq).t = "undefined" =>
         /\ CountOf(gcall).t = "number" /\ CountOf(gcall).whole
         /\ CountOf(gcall).n = (IF gcall.op = "generateQuiz" THEN 5 ELSE 10)
         /\ submitted.prompt[2] = (IF gcall.op = "generateQuiz" THEN "5" ELSE "10")
    /\ rq.op # "none" /\ CountOf(rq).t # "undefined" =>
         CountOf(gcall) = CountOf(rq)

\* C17 witness: a flashcards request without cardCount has reached the
\* provider with a prompt for 10 cards.
C17_Witness ==
  /\ rq.op = "POST /api/ai/flashcards"
  /\ rq.cardCount = Absent
  /\ rst = "awaiting"
  /\ submitted.prompt[2] = "10"


\* The position of the leftmost occurrence of pat in s, or 0.
FirstAt(s, pat) ==
  LET hits == { i \in 1..(Len(s) - Len(pat) + 1) :
                  SubSeq(s, i, i + Len(pat) - 1) = pat }
  IN  IF hits = {} THEN 0
      ELSE CHOOSE i \in hits : \A j \in hits : i <= j

\* s with the leftmost occurrence of pat cut out, and so on in the rest.
RECURSIVE DeleteEach(_, _)
DeleteEach(s, pat) ==
  LET i == FirstAt(s, pat)
  IN  IF i = 0 THEN s
      ELSE SubSeq(s, 1, i - 1)
             \o DeleteEach(SubSeq(s, i + Len(pat), Len(s)), pat)

\* A character that belongs to neither fence pattern.
NotFenceChar(ch) == ch \notin { BT, "j", "s", "o", "n" }

\* C18: the stripped text is the raw text with every json fence cut out
\* and then every fence that remains; no fence is left, the characters
\* outside the fence patterns are kept in their order, and a text without
\* a fence marker is returned as it is.
C18_StripRemovesOnlyFences ==
  sStage # "raw" =>
    /\ sy = DeleteEach(DeleteEach(sx, FenceJson), Fence)
    /\ ~Contains(sy, Fence)
    /\ SelectSeq(sy, NotFenceChar) = SelectSeq(sx, NotFenceChar)
    /\ ~Contains(sx, Fence) => sy = sx

\* C18 witness: a payload between a json fence and a closing fence has
\* been stripped to the payload; so has a text that only holds the word
\* json, which is kept.
C18_Witness ==
  /\ sStage = "once"
  /\ sx = FenceJson \o <<"x">> \o <<"j", "s", "o", "n">> \o Fence
  /\ sy = <<"x", "j", "s", "o", "n">>

\* C19: the explanation prompt is the template of the difficulty, followed
\* by " Context: " and the context exactly when the request carries a
\* non-empty context; the context is the one of the request body.
C19_ContextAppended ==
  gcall.op = "generateExplanation" /\ ProviderCalled =>
    LET t == ExplanationTemplate(gcall.difficulty, gcall.topic)
    IN  /\ gcall.context = rq.context
        /\ MissingOrEmpty(rq.context) => submitted.prompt = t
        /\ ~MissingOrEmpty(rq.context) =>
             submitted.prompt = t \o << " Context: ", rq.context.s >>

\* C19 witness: an advanced explanation with a context has reached the
\* provider with the context as the last segment of its prompt.
C19_Witness ==
  /\ rst = "awaiting"
  /\ rq.op = "POST /api/ai/explain"
  /\ rq.difficulty = Str("advanced")
  /\ rq.context = Str("for an exam")
  /\ Len(submitted.prompt) = 5
  /\ submitted.prompt[5] = "for an exam"

\* C20: every stored progress is an integer in 0..100, and a PATCH with a
\* non-number or out-of-range progress is answered 400 and leaves the
\* table as it was.
C20_ProgressInRange ==
  /\ \A i \in DOMAIN topics :
       /\ topics[i].progress.t = "number"
       /\ topics[i].progress.whole
       /\ topics[i].progress.n >= 0
       /\ topics[i].progress.n <= 100
  /\ /\ treq.op = "PATCH /api/topics/:id/progress"
     /\ \/ treq.progress.t # "number"
        \/ treq.progress.n < 0
        \/ treq.progress.n > 100
     => tstatus = 400 /\ topics = tbefore

----------------------------------------------------------------------------
(* Claims C21-C28 *)

\* C21: whenever no togglePostLike call is in flight, likeCount of the post
\* equals the number of its post_likes rows and is not negative, however
\* the statements of concurrent calls interleaved.
C21_LikeCountMatchesRows ==
  (\A k \in Likers : lpc[k] = "idle") =>
    /\ likeCount = Cardinality(likeRows)
    /\ likeCount >= 0

\* C22: every study group's memberCount equals the number of its member
\* rows, its creator is among them as admin, and no user has two member
\* rows in one group.
C22_MemberCountMatchesRows ==
  \A i \in DOMAIN sgroups :
    /\ sgroups[i].memberCount = Num(Cardinality(sgroups[i].members))
    /\ [userId |-> sgroups[i].creatorId, role |-> "admin"] \in sgroups[i].members
    /\ \A m, n \in sgroups[i].members : m.userId = n.userId => m = n

\* C23: every row a handler creates is stored with the session user as its
\* owner (userId, or creatorId for a study group), whatever userId or
\* creatorId the request body carries.
C23_OwnerIsSessionUser ==
  \A row \in arows : row.owner = areq.user /\ row.owner \in Users

\* A topic was created from a body that names another user.
C23_Witness ==
  /\ astage = "done"
  /\ astatus = 200
  /\ areq.path = "/api/topics"
  /\ areq.method = "POST"
  /\ areq.body.userId \in Users \ { areq.user }
  /\ [table |-> "topics", owner |-> areq.user] \in arows

\* C24: a request without a session to any route other than login, the
\* OAuth callback and logout never reaches the handler: it is answered 401
\* with no storage write, no created row and no provider call.
C24_UnauthenticatedRejected ==
  /\ areq.path # "none"
  /\ areq.path \notin OpenPaths
  /\ areq.user = "none"
  /\ astage # "middleware"
  => /\ astage = "done"
     /\ astatus = 401
     /\ ~awrote
     /\ arows = {}
     /\ acalls = 0

\* A request without a session to a route that calls the provider and
\* writes to storage was answered.
C24_Witness ==
  /\ astage = "done"
  /\ areq.path = "/api/ai/quiz"
  /\ areq.user = "none"
  /\ astatus = 401

\* C25: once no chat request is pending, chatHistory holds no placeholder,
\* every question that was answered appears exactly once and is directly
\* followed by its answer, and the roles alternate starting with the user.
C25_ChatHistoryClean ==
  ~cpending =>
    /\ \A i \in DOMAIN chatHistory : chatHistory[i].text # Thinking
    /\ \A k \in DOMAIN canswered :
         LET n == canswered[k]
             at == { i \in DOMAIN chatHistory :
                       chatHistory[i] = [role |-> "user", text |-> Question(n)] }
         IN  /\ Cardinality(at) = 1
             /\ \A i \in at :
                  /\ i + 1 \in DOMAIN chatHistory
                  /\ chatHistory[i + 1] = [role |-> "model", text |-> AnswerTo(n)]
    /\ \A i \in DOMAIN chatHistory :
         chatHistory[i].role = IF i % 2 = 1 THEN "user" ELSE "model"

\* C26: a finished updateUserStreak call has set the streak to the
\* previous streak plus 1 when the stored last learning date was the day
\* before the call's today, left it as it was when that date was today,
\* and set it to 1 otherwise; the streak is then at least 1.
C26_StreakRule ==
  upc = "written" =>
    /\ urow.streak =
         IF ~ubefore.lastLearningDate.set THEN 1
         ELSE IF ubefore.lastLearningDate.day = utoday - 1
              THEN ubefore.streak + 1
         ELSE IF ubefore.lastLearningDate.day = utoday
              THEN ubefore.streak
         ELSE 1
    /\ urow.streak >= 1

\* A call on the day after an afternoon of learning raised the streak.
C26_Witness ==
  /\ upc = "written"
  /\ ubefore.lastLearningDate.set
  /\ ubefore.lastLearningDate.hour = 12
  /\ ubefore.lastLearningDate.day = utoday - 1
  /\ urow.streak = ubefore.streak + 1
  /\ urow.streak >= 2

\* C27: the level is always floor(xp / 1000) + 1, and when no update is in
\* flight the xp is the sum of the gains of all calls made.
C27_XpAndLevel ==
  /\ xrow.level = (xrow.xp \div 1000) + 1
  /\ (\A k \in Updaters : xpc[k] = "idle") => xrow.xp = xrequested

\* Two updates overlapped and the user stands exactly on a level boundary.
C27_Witness ==
  /\ \A k \in Updaters : xpc[k] = "idle"
  /\ xoverlap
  /\ xrow.xp = 1000
  /\ xrow.level = 2

\* C28: when POST /api/ai/flashcards has answered 500 the flashcards table
\* is as it was when the request arrived, and when it has answered 200 the
\* table has gained every generated card in order and the response holds
\* the same cards.
C28_AllOrNothing ==
  fpc = "done" =>
    /\ fstatus = 500 => ftable = fbefore
    /\ fstatus = 200 =>
         /\ ftable = fbefore \o fcards
         /\ freturned = fcards

=============================================================================
